---- MODULE Spec2Model ----
(***************************************************************************)
(* Workflow orchestration core of Wapi_bot: the conversation state, the    *)
(* confidence-gated merge node, the Frappe call node and the nodes that    *)
(* write the domain fields (customer, vehicle, appointment).               *)
(*                                                                         *)
(* Conventions.  A Python dict is a TLA+ function whose DOMAIN is the set  *)
(* of its keys.  Python None stored in a dict-valued slot is the value     *)
(* None, a key that is absent from the state is Missing.  Confidence       *)
(* scores are kept in tenths (0.70 is 7) so that float comparison is       *)
(* integer comparison.                                                     *)
(***************************************************************************)
EXTENDS Integers, Sequences, FiniteSets, TLC

VARIABLES
    state,      \* the BookingState dict threaded through the nodes
    last,       \* the most recent node execution: its inputs and outcome
    calls,      \* number of node executions so far
    fromNull,   \* the merge target was null or empty before the first call
    allDefault, \* every merge call so far used the default strategy
    maxConf,    \* highest new_confidence attempted so far (-1: none yet)
    maxData     \* new_data of the first call that attempted maxConf

vars == <<state, last, calls, fromNull, allDefault, maxConf, maxData>>

----------------------------------------------------------------------------
(* Bounds *)

MaxCalls == 3       \* node executions per behaviour
MaxTurn == 1        \* turn numbers 0..MaxTurn

----------------------------------------------------------------------------
(* Values *)

None == [none |-> TRUE]
Missing == [missing |-> TRUE]
EmptyDict == [k \in {} |-> 0]

confidence_field == "confidence"
NoTurn == -1
Turns == {NoTurn} \cup (0 .. MaxTurn)

Confidences == {0, 7, 9}

IsDict(v) == v # None /\ v # Missing

\* Python truthiness of a dict-or-None value: None and {} are falsy.
Truthy(v) == IsDict(v) /\ DOMAIN v # {}

\* dict.get(key, default)
DictGet(d, key, default) == IF key \in DOMAIN d THEN d[key] ELSE default

\* {**a, **b}
Overlay(a, b) ==
    [k \in (DOMAIN a) \cup (DOMAIN b) |-> IF k \in DOMAIN b THEN b[k] ELSE a[k]]

Max(a, b) == IF a >= b THEN a ELSE b

----------------------------------------------------------------------------
(* nodes/atomic/merge.py *)

\* Paths are sequences of keys ("customer" is <<"customer">>).
\* A value that is neither a dict nor None (a str, a number, a list) is
\* kept, where the type matters, as [scalar |-> text].
is_scalar(v) == IsDict(v) /\ "scalar" \in DOMAIN v

\* isinstance(current, dict)
is_dict(current) == IsDict(current) /\ ~is_scalar(current)

\* The key of the state that the path starts with, None when absent.
top_of(s, field_path) ==
    IF Head(field_path) \in DOMAIN s /\ s[Head(field_path)] # Missing
    THEN s[Head(field_path)] ELSE None

\* The loop of get_nested_field, were it to return what it had reached.
RECURSIVE get_parts_reached(_, _)
get_parts_reached(current, parts) ==
    IF parts = << >> THEN current
    ELSE IF is_dict(current) /\ Head(parts) \in DOMAIN current
    THEN get_parts_reached(current[Head(parts)], Tail(parts))
    ELSE current

get_nested_field_reached(s, field_path) ==
    get_parts_reached(top_of(s, field_path), Tail(field_path))

\* The loop of get_nested_field below the first part.
RECURSIVE get_parts(_, _)
get_parts(current, parts) ==
    IF parts = << >> THEN current
    ELSE IF is_dict(current) /\ Head(parts) \in DOMAIN current
    THEN get_parts(current[Head(parts)], Tail(parts))
    ELSE None

get_nested_field(s, field_path) ==
    get_parts(top_of(s, field_path), Tail(field_path))

\* set_nested_field raises TypeError: a part before the last is there and
\* is neither a dict nor None, so that it can be neither searched nor
\* assigned into.  Nothing has been assigned by then.
set_nested_field_raises(s, field_path) ==
    \E i \in 1 .. Len(field_path) - 1 :
        is_scalar(get_nested_field(s, SubSeq(field_path, 1, i)))

\* The loop of set_nested_field, were it to start every intermediate
\* mapping afresh.
RECURSIVE set_parts_afresh(_, _, _)
set_parts_afresh(current, parts, value) ==
    IF Len(parts) = 1 THEN Overlay(current, [k \in {Head(parts)} |-> value])
    ELSE Overlay(current,
                 [k \in {Head(parts)} |-> set_parts_afresh(EmptyDict, Tail(parts), value)])

set_nested_field_afresh(s, field_path, value) ==
    IF set_nested_field_raises(s, field_path) THEN s
    ELSE IF Len(field_path) = 1 THEN [s EXCEPT ![Head(field_path)] = value]
    ELSE [s EXCEPT ![Head(field_path)] =
             set_parts_afresh(EmptyDict, Tail(field_path), value)]

\* The loop of set_nested_field below the first part: current is a dict.
RECURSIVE set_parts(_, _, _)
set_parts(current, parts, value) ==
    IF Len(parts) = 1 THEN Overlay(current, [k \in {Head(parts)} |-> value])
    ELSE LET part == Head(parts)
             child == IF part \in DOMAIN current /\ IsDict(current[part])
                      THEN current[part] ELSE EmptyDict
         IN  Overlay(current, [k \in {part} |-> set_parts(child, Tail(parts), value)])

\* The state after set_nested_field, the state as it was when it raises.
set_nested_field(s, field_path, value) ==
    IF set_nested_field_raises(s, field_path) THEN s
    ELSE IF Len(field_path) = 1 THEN [s EXCEPT ![Head(field_path)] = value]
    ELSE LET cur == s[Head(field_path)]
             base == IF IsDict(cur) THEN cur ELSE EmptyDict
         IN  [s EXCEPT ![Head(field_path)] =
                 set_parts(base, Tail(field_path), value)]

\* Variant of the test that lets a tie replace.
default_accepts_ge(new_confidence, existing_confidence) ==
    new_confidence >= existing_confidence

\* Variant of the test that always replaces.
default_accepts_always(new_confidence, existing_confidence) == TRUE

\* merge.py:162, the test of the default strategy
default_accepts(new_confidence, existing_confidence) ==
    new_confidence > existing_confidence

\* merge.py:52-80, a callable with the merge_fn signature
default_merge_strategy(existing, new, existing_confidence, new_confidence) ==
    IF new_confidence > existing_confidence THEN new ELSE existing

MergeFns == {"None", "default_merge_strategy", "zero_confidence", "raises"}

\* The custom merge functions the model passes as merge_fn.
merge_fn_raises(merge_fn) == merge_fn = "raises"

merge_fn_result(merge_fn, existing, new, existing_confidence, new_confidence) ==
    CASE merge_fn = "default_merge_strategy" ->
            default_merge_strategy(existing, new, existing_confidence, new_confidence)
      [] merge_fn = "zero_confidence" -> Overlay(new, [k \in {confidence_field} |-> 0])
      [] OTHER -> new

\* merge.py:131-132, 151-152, 171-172
with_turn(merged, turn) ==
    IF turn # NoTurn THEN Overlay(merged, [k \in {"turn_extracted"} |-> turn])
    ELSE merged

with_confidence(merged, c) == Overlay(merged, [k \in {confidence_field} |-> c])

\* Variant that stores the new confidence without taking the maximum.
forced_confidence_new(existing_confidence, new_confidence) == new_confidence

\* merge.py:149
forced_confidence(existing_confidence, new_confidence) ==
    Max(existing_confidence, new_confidence)

\* Variants of the overlay: new_data alone, and existing keys winning.
shallow_merge_replace(existing_data, new_data) == new_data

shallow_merge_keep(existing_data, new_data) == Overlay(new_data, existing_data)

\* merge.py:169, {**existing_data, **new_data}
shallow_merge(existing_data, new_data) == Overlay(existing_data, new_data)

merge_node(s, new_data, data_path, new_confidence, merge_fn, turn) ==
    LET existing_data == get_nested_field(s, data_path) IN
    IF ~Truthy(existing_data)
    THEN set_nested_field(s, data_path,
             with_turn(with_confidence(new_data, new_confidence), turn))
    ELSE
      LET existing_confidence == DictGet(existing_data, confidence_field, 0) IN
      IF merge_fn # "None" /\ ~merge_fn_raises(merge_fn)
      THEN set_nested_field(s, data_path,
               with_turn(
                   with_confidence(
                       merge_fn_result(merge_fn, existing_data, new_data,
                                       existing_confidence, new_confidence),
                       forced_confidence(existing_confidence, new_confidence)),
                   turn))
      ELSE IF default_accepts(new_confidence, existing_confidence)
      THEN set_nested_field(s, data_path,
               with_turn(
                   with_confidence(shallow_merge(existing_data, new_data),
                                   new_confidence),
                   turn))
      ELSE s

----------------------------------------------------------------------------
(* clients/frappe_yawlit/utils/exceptions.py and nodes/atomic/call_frappe.py *)

ExceptionClasses ==
    {"NotFoundError", "ValidationError", "ServerError", "NetworkError", "Exception"}

\* Every class of exceptions.py derives from FrappeAPIError.
IsFrappeAPIError(e) ==
    e \in {"FrappeAPIError", "AuthenticationError", "ValidationError",
           "NotFoundError", "ServerError", "NetworkError", "TimeoutError"}

\* "a.b" of the path <<"a", "b">>
path_str(field_path) ==
    IF Len(field_path) = 1 THEN field_path[1]
    ELSE field_path[1] \o "." \o field_path[2]

append_error(s, code) == [s EXCEPT !.errors = Append(@, code)]

\* Variant with the FrappeAPIError clause ahead of the NotFoundError clause.
error_code_api_first(e, result_path) ==
    IF IsFrappeAPIError(e) THEN "frappe_api_error_" \o path_str(result_path)
    ELSE "frappe_unexpected_error_" \o path_str(result_path)

\* The except clauses of call_frappe.node in their order.
error_code(e, result_path) ==
    IF e = "NotFoundError" THEN "frappe_not_found_" \o path_str(result_path)
    ELSE IF IsFrappeAPIError(e) THEN "frappe_api_error_" \o path_str(result_path)
    ELSE "frappe_unexpected_error_" \o path_str(result_path)

\* Variant that re-raises under every policy but log.
reraises_unless_log(on_failure) == on_failure # "log"

\* if on_failure == "raise": raise
reraises(on_failure) == on_failure = "raise"

\* The result of a node: the state it leaves and whether an exception
\* propagated to its caller.
Returned(s) == [state |-> s, raised |-> FALSE]
Raised(s) == [state |-> s, raised |-> TRUE]

Outcome(s, on_failure) == IF reraises(on_failure) THEN Raised(s) ELSE Returned(s)

\* The collaborator calls one execution makes: operation is awaited once,
\* unless state_extractor raised before it.
call_frappe_calls(state_extractor) == IF state_extractor = "raises" THEN 0 ELSE 1

\* state_extractor is "None" (not given), "ok" or "raises"; operation is
\* what the awaited collaborator call does: [ok |-> TRUE, result |-> r] or
\* [ok |-> FALSE, exception |-> class].
call_frappe_node(s, operation, result_path, state_extractor, on_failure) ==
    IF state_extractor = "raises"
    THEN Outcome(append_error(s, "frappe_param_extraction_failed_" \o path_str(result_path)),
                 on_failure)
    ELSE IF operation.ok
    THEN Returned(set_nested_field(s, result_path, operation.result))
    ELSE IF operation.exception = "NotFoundError"
    THEN LET logged == append_error(s, error_code(operation.exception, result_path))
         IN  IF reraises(on_failure) THEN Raised(logged)
             ELSE IF on_failure = "clear"
                  THEN Returned(set_nested_field(logged, result_path, None))
                  ELSE Returned(logged)
    ELSE Outcome(append_error(s, error_code(operation.exception, result_path)),
                 on_failure)

----------------------------------------------------------------------------
(* nodes/atomic/validate.py *)
(* model is what the Pydantic model does with the data: [ok |-> TRUE,      *)
(* validated |-> d] when it accepts them (d is model_dump()), [ok |->      *)
(* FALSE, exception |-> "ValidationError", errors |-> es] when it rejects   *)
(* them, [ok |-> FALSE, exception |-> "Exception"] for any other exception. *)
(* validate.py keeps its own copy of get_nested_field and set_nested_field, *)
(* line for line the one of merge.py.                                       *)

\* f"validation_failed_{data_path}.{field_path}_{error['type']}"
validation_code(data_path, error) ==
    "validation_failed_" \o path_str(data_path) \o "." \o error.loc \o "_" \o error.type

\* for error in e.errors(): state["errors"].append(error_msg)
RECURSIVE append_validation_errors(_, _, _)
append_validation_errors(s, data_path, errors) ==
    IF errors = << >> THEN s
    ELSE append_validation_errors(append_error(s, validation_code(data_path, Head(errors))),
                                  data_path, Tail(errors))

\* f"{data_path}.validation_status"
metadata_path(data_path) == data_path \o <<"validation_status">>

\* The failure policy after a ValidationError: "clear" nulls data_path and,
\* like "log", goes on to the validation_status write; "raise" re-raises
\* before it.
validation_failed(s, data_path, on_failure) ==
    IF on_failure = "raise" THEN Raised(s)
    ELSE Returned(set_nested_field(
                      IF on_failure = "clear"
                      THEN set_nested_field(s, data_path, None)
                      ELSE s,
                      metadata_path(data_path), "failed"))

validate_node(s, model, data_path, on_failure) ==
    LET data == get_nested_field(s, data_path) IN
    IF data = None \/ data = Missing
    THEN Returned(append_error(s, "validation_no_data_" \o path_str(data_path)))
    ELSE IF model.ok
    THEN Returned(set_nested_field(
                      set_nested_field(s, data_path,
                          Overlay(IF Truthy(data) THEN data ELSE EmptyDict,
                                  model.validated)),
                      metadata_path(data_path), "passed"))
    ELSE IF model.exception = "ValidationError"
    THEN validation_failed(append_validation_errors(s, data_path, model.errors),
                           data_path, on_failure)
    ELSE Outcome(append_error(s, "validation_error_" \o path_str(data_path)),
                 on_failure)

----------------------------------------------------------------------------
(* fallbacks/name_fallback.py and nodes/extraction/extract_name.py *)

Messages == {"My name is Ravi Kumar", "Shukriya", "hi", "2025-12-27 please"}

\* RegexNameExtractor.extract on the messages of the model: the first
\* pattern captures the name after "my name is", the second a message that
\* is one or two capitalised words, and a greeting stopword is rejected.
RegexNameExtractor_extract(message) ==
    CASE message = "My name is Ravi Kumar" -> [first_name |-> "Ravi", last_name |-> "Kumar"]
      [] message = "Shukriya" -> [first_name |-> "Shukriya", last_name |-> ""]
      [] OTHER -> None

RegexConfidence == 7

\* str.strip on the texts a prediction carries.
strip(text) ==
    CASE text = " Sneha " -> "Sneha"
      [] text = " " -> ""
      [] OTHER -> text

\* NameExtractor.__call__, from the prediction of the LLM: a name field the
\* prediction lacks is "", confidence is the mapped value in tenths.
NameExtractor_call(prediction) ==
    [first_name |-> strip(DictGet(prediction, "first_name", "")),
     last_name |-> strip(DictGet(prediction, "last_name", "")),
     confidence |-> prediction.confidence]

\* extract_name_dspy: dspy is what the LLM tier does, [ok |-> FALSE] for a
\* timeout or any exception, [ok |-> TRUE, result |-> r] otherwise.
extract_name_dspy(dspy) ==
    [first_name |-> dspy.result.first_name,
     last_name |-> dspy.result.last_name,
     extraction_method |-> "dspy",
     confidence |-> dspy.result.confidence]

\* The regex tier, were it to report the confidence of a certain result.
extract_name_regex_certain(s) ==
    Overlay(RegexNameExtractor_extract(s.user_message),
            [extraction_method |-> "regex", confidence |-> 9])

\* extract_name_regex raises exactly when the extractor returns None.
extract_name_regex(s) ==
    Overlay(RegexNameExtractor_extract(s.user_message),
            [extraction_method |-> "regex", confidence |-> RegexConfidence])

\* if not state.get("customer"): state["customer"] = {}
\* state["customer"].update(name_data)
update_customer(s, name_data) ==
    [s EXCEPT !.customer =
        Overlay(IF Truthy(s.customer) THEN s.customer ELSE EmptyDict, name_data)]

\* Tier 3, were it to ask without recording the failure.
ask_user_silent(s) ==
    [s EXCEPT !.response = "I didn't catch your name. What's your name?",
              !.current_step = "extract_name"]

\* Tier 3: ask the user.
ask_user(s) ==
    [append_error(s, "name_extraction_failed") EXCEPT
        !.response = "I didn't catch your name. What's your name?",
        !.current_step = "extract_name"]

extract_name_node(s, dspy) ==
    IF dspy.ok
    THEN [update_customer(s, extract_name_dspy(dspy)) EXCEPT !.current_step = "extract_phone"]
    ELSE IF RegexNameExtractor_extract(s.user_message) # None
    THEN [update_customer(s, extract_name_regex(s)) EXCEPT !.current_step = "extract_phone"]
    ELSE ask_user(s)

\* The order in which extract_name.node is written to try its tiers.
TierOrder == <<"dspy", "regex">>

\* The tiers, were the regex tier to run whatever the DSPy tier returned.
extract_name_tiers_both(s, dspy) ==
    <<[tier |-> "dspy", ok |-> dspy.ok],
      [tier |-> "regex", ok |-> RegexNameExtractor_extract(s.user_message) # None]>>

\* The extraction tiers one execution of extract_name.node invokes, in the
\* order it invokes them, each with whether it returned a result:
\* extract_name_dspy is awaited first, extract_name_regex only in the
\* handler of its exception.
extract_name_tiers(s, dspy) ==
    IF dspy.ok
    THEN <<[tier |-> "dspy", ok |-> TRUE]>>
    ELSE <<[tier |-> "dspy", ok |-> FALSE],
           [tier |-> "regex", ok |-> RegexNameExtractor_extract(s.user_message) # None]>>

----------------------------------------------------------------------------
(* workflows/simple_chat.py and nodes/atomic/checkpoint.py *)

\* The checkpoint entry also carries a clock reading and the completeness,
\* which are not kept here.
\* What the "errors" of a checkpoint entry holds: the list object that
\* state["errors"] is, which the nodes append to in place.
ErrorsOfState == "state['errors']"

checkpoint_node(s, checkpoint_name, checkpoint_type) ==
    [s EXCEPT !.checkpoints =
        Append(@, [name |-> checkpoint_name,
                   type |-> checkpoint_type,
                   conversation_id |-> s.conversation_id,
                   current_step |-> s.current_step,
                   errors |-> ErrorsOfState])]

\* What an entry of the log reads as in state s.
checkpoint_entry(s, entry) == [entry EXCEPT !.errors = s.errors]

\* The graph, were a customer_confirmed milestone to follow extract_name.
simple_chat_workflow_checkpointed(s, dspy) ==
    checkpoint_node(extract_name_node(s, dspy), "customer_confirmed", "milestone")

\* The compiled graph: entry point extract_name, then END.
simple_chat_workflow(s, dspy) == extract_name_node(s, dspy)

----------------------------------------------------------------------------
(* workflows/existing_user_booking.py *)

\* state.get(key, {}) for a dict-valued key
GetOrEmpty(s, key) == IF s[key] = Missing THEN EmptyDict ELSE s[key]

\* data.get(key) on the lookup response's data
lookup_customer_node(s, operation) ==
    LET s1 == call_frappe_node(s, operation, <<"customer_lookup_response">>, "ok", "log").state
        lookup_response == GetOrEmpty(s1, "customer_lookup_response")
    IN  IF DictGet(lookup_response, "exists", FALSE)
        THEN LET data == DictGet(lookup_response, "data", EmptyDict)
             IN  [s1 EXCEPT !.customer =
                     [customer_uuid |-> data.customer_uuid,
                      first_name |-> data.first_name,
                      last_name |-> data.last_name,
                      enabled |-> data.enabled]]
        ELSE s1

\* The vehicle dict built from one entry of the vehicles list.
vehicle_of(vehicle) ==
    [vehicle_id |-> vehicle.name,
     vehicle_make |-> vehicle.vehicle_make,
     vehicle_model |-> vehicle.vehicle_model,
     vehicle_number |-> vehicle.vehicle_number,
     vehicle_type |-> vehicle.vehicle_type]

\* The response shapes fetch_vehicles_node accepts: vehicles under
\* "message", else at top level.
vehicles_in(vehicles_response) ==
    LET message == DictGet(vehicles_response, "message", EmptyDict)
        wrapped == DictGet(message, "vehicles", << >>)
    IN  IF wrapped # << >> THEN wrapped
        ELSE DictGet(vehicles_response, "vehicles", << >>)

\* The test of fetch_vehicles_node for a Frappe error response: the fetch
\* was made and its response carries message.success = False.
fetch_reports_error(s, operation) ==
    /\ Truthy(s.customer)
    /\ DictGet(s.customer, "customer_uuid", "") # ""
    /\ LET s1 == call_frappe_node(s, operation, <<"vehicles_response">>, "ok", "log").state
           message == DictGet(GetOrEmpty(s1, "vehicles_response"), "message", EmptyDict)
       IN  "success" \in DOMAIN message /\ message.success = FALSE

fetch_vehicles_node(s, operation) ==
    IF ~Truthy(s.customer) \/ DictGet(s.customer, "customer_uuid", "") = ""
    THEN [s EXCEPT !.vehicle_selected = FALSE]
    ELSE
      LET s1 == call_frappe_node(s, operation, <<"vehicles_response">>, "ok", "log").state
          vehicles_response == GetOrEmpty(s1, "vehicles_response")
          message == DictGet(vehicles_response, "message", EmptyDict)
          vehicles == vehicles_in(vehicles_response)
      IN  IF "success" \in DOMAIN message /\ message.success = FALSE
          THEN [s1 EXCEPT !.vehicle = None,
                          !.vehicle_options = << >>,
                          !.vehicle_selected = FALSE,
                          !.frappe_error = DictGet(message, "message", "Unknown error")]
          ELSE IF Len(vehicles) = 0
          THEN [s1 EXCEPT !.vehicle = None,
                          !.vehicle_options = << >>,
                          !.vehicle_selected = FALSE]
          ELSE IF Len(vehicles) = 1
          THEN [s1 EXCEPT !.vehicle = vehicle_of(vehicles[1]),
                          !.vehicle_options = << >>,
                          !.vehicle_selected = TRUE]
          ELSE [s1 EXCEPT !.vehicle = None,
                          !.vehicle_options = vehicles,
                          !.vehicle_selected = FALSE]

\* fetch_slots_node: the mock slots of the MVP.
MockSlots ==
    <<[date |-> "2025-12-26", time_slot |-> "10:00 AM - 12:00 PM", slot_id |-> "SLOT-001", available |-> TRUE],
      [date |-> "2025-12-26", time_slot |-> "2:00 PM - 4:00 PM", slot_id |-> "SLOT-002", available |-> TRUE],
      [date |-> "2025-12-27", time_slot |-> "10:00 AM - 12:00 PM", slot_id |-> "SLOT-003", available |-> TRUE],
      [date |-> "2025-12-27", time_slot |-> "2:00 PM - 4:00 PM", slot_id |-> "SLOT-004", available |-> FALSE]>>

fetch_slots_node(s) == [s EXCEPT !.available_slots = MockSlots]

\* date in user_message or time_slot.lower() in user_message.lower(), on
\* the messages of the model: only "2025-12-27 please" names a date, and no
\* message names a time slot.
slot_mentioned(slot, message) ==
    message = "2025-12-27 please" /\ slot.date = "2025-12-27"

\* Index of the first available slot the message mentions, 0 if none.
first_mentioned(available_slots, message) ==
    LET hits == {i \in 1 .. Len(available_slots) :
                    /\ available_slots[i].available
                    /\ slot_mentioned(available_slots[i], message)}
    IN  IF hits = {} THEN 0 ELSE CHOOSE i \in hits : \A j \in hits : i <= j

extract_slot_selection_node(s) ==
    LET i == first_mentioned(s.available_slots, s.user_message) IN
    IF i # 0
    THEN [s EXCEPT !.appointment =
                       [date |-> s.available_slots[i].date,
                        time_slot |-> s.available_slots[i].time_slot,
                        slot_id |-> s.available_slots[i].slot_id],
                   !.slot_selected = TRUE]
    ELSE [s EXCEPT !.slot_selected = FALSE,
                   !.selection_error = "Could not understand slot selection"]

\* The router functions. confirmed is "None", "True" or "False".

\* check_resume_point, were it to test the service stage first.
check_resume_point_service_first(s) ==
    IF s.filtered_services # << >> /\ ~s.service_selected THEN "awaiting_service"
    ELSE IF s.vehicle_options # << >> /\ ~s.vehicle_selected THEN "awaiting_vehicle"
    ELSE IF s.available_slots # << >> /\ ~s.slot_selected THEN "awaiting_slot"
    ELSE IF Truthy(s.selected_service) /\ s.slot_selected /\ s.confirmed = "None"
    THEN "awaiting_confirmation"
    ELSE "fresh_start"

check_resume_point(s) ==
    IF s.vehicle_options # << >> /\ ~s.vehicle_selected THEN "awaiting_vehicle"
    ELSE IF s.filtered_services # << >> /\ ~s.service_selected THEN "awaiting_service"
    ELSE IF s.available_slots # << >> /\ ~s.slot_selected THEN "awaiting_slot"
    ELSE IF Truthy(s.selected_service) /\ s.slot_selected /\ s.confirmed = "None"
    THEN "awaiting_confirmation"
    ELSE "fresh_start"

\* The conditional edges of entry_router.
resume_edges ==
    [fresh_start |-> "lookup_customer",
     awaiting_vehicle |-> "extract_vehicle_selection",
     awaiting_service |-> "extract_service_selection",
     awaiting_slot |-> "extract_slot_selection",
     awaiting_confirmation |-> "extract_confirmation"]

\* check_customer_exists, were it to route on the lookup response.
check_customer_exists_on_response(s) ==
    IF DictGet(GetOrEmpty(s, "customer_lookup_response"), "exists", FALSE)
    THEN "existing_customer" ELSE "new_customer"

check_customer_exists(s) ==
    IF Truthy(s.customer) /\ DictGet(s.customer, "customer_uuid", "") # ""
    THEN "existing_customer" ELSE "new_customer"

check_vehicle_selected(s) ==
    IF s.frappe_error # "" THEN "frappe_error"
    ELSE IF s.vehicle_selected THEN "vehicle_selected"
    ELSE IF s.vehicle_options = << >> THEN "no_vehicles"
    ELSE "vehicle_selection_required"

check_service_selected(s) ==
    IF s.service_selected THEN "service_selected" ELSE "service_not_selected"

check_slot_selected(s) ==
    IF s.slot_selected THEN "slot_selected" ELSE "slot_not_selected"

check_confirmation_unless_cancelled(s) ==
    IF s.confirmed = "False" THEN "cancelled" ELSE "confirmed"

check_confirmation(s) ==
    IF s.confirmed = "True" THEN "confirmed"
    ELSE IF s.confirmed = "False" THEN "cancelled"
    ELSE "unclear"

Routers ==
    {"check_resume_point", "check_customer_exists", "check_vehicle_selected",
     "check_service_selected", "check_slot_selected", "check_confirmation"}

\* The decision a router returns.
route(router, s) ==
    CASE router = "check_resume_point" -> check_resume_point(s)
      [] router = "check_customer_exists" -> check_customer_exists(s)
      [] router = "check_vehicle_selected" -> check_vehicle_selected(s)
      [] router = "check_service_selected" -> check_service_selected(s)
      [] router = "check_slot_selected" -> check_slot_selected(s)
      [] router = "check_confirmation" -> check_confirmation(s)

\* The state after a router ran, were the router to consume what it tests.
routed_state_consuming(router, s) ==
    [s EXCEPT !.vehicle_options = << >>,
              !.service_selected = TRUE,
              !.slot_selected = FALSE,
              !.confirmed = "None",
              !.customer = None]

\* The state after a router ran: the routers only read the state (get and
\* logging), none of them assigns to it.
routed_state(router, s) == s

\* The nodes of the booking graph that only send a message: each awaits
\* send_message_node with a message builder. The message is kept as the
\* name of its builder.
send_message_node(s, message) == [s EXCEPT !.response = message]

\* transform_node(state, transformer, source, target) on the two uses of
\* the graph: the filtered services and the formatted slots message.
transform_node(s, source, target) ==
    IF target = "formatted_slots_message"
    THEN [s EXCEPT !.formatted_slots_message =
                       IF s[source] = << >> THEN "" ELSE "formatted slots"]
    ELSE [s EXCEPT ![target] = s[source]]

\* re.search(r'\b(\d+)\b', user_message) on the messages of the model: the
\* first number of the message, 0 when it has none.
number_in(message) ==
    CASE message = "1" -> 1
      [] message = "2025-12-27 please" -> 2025
      [] OTHER -> 0

extract_vehicle_selection_node(s) ==
    IF s.vehicle_options = << >> THEN s
    ELSE IF number_in(s.user_message) # 0
    THEN IF number_in(s.user_message) <= Len(s.vehicle_options)
         THEN [s EXCEPT !.vehicle = vehicle_of(s.vehicle_options[number_in(s.user_message)]),
                        !.vehicle_selected = TRUE]
         ELSE [s EXCEPT !.selection_error = "Invalid vehicle number",
                        !.vehicle_selected = FALSE]
    ELSE [s EXCEPT !.selection_error = "Please reply with a number (1, 2, 3, etc.)",
                   !.vehicle_selected = FALSE]

\* The response shapes fetch_services_node accepts.
services_in(services_response) ==
    LET message == DictGet(services_response, "message", EmptyDict)
        wrapped == DictGet(message, "services", << >>)
    IN  IF wrapped # << >> THEN wrapped
        ELSE DictGet(services_response, "services", << >>)

fetch_services_node(s, operation) ==
    LET s1 == call_frappe_node(s, operation, <<"services_response">>, "ok", "log").state
    IN  [s1 EXCEPT !.all_services = services_in(GetOrEmpty(s1, "services_response"))]

filter_services_node(s) == transform_node(s, "all_services", "filtered_services")

\* service.get("product_name", "").lower() in user_message.lower(): no
\* message of the model names a service, and the empty name is in every
\* message.
names_service(service, message) == DictGet(service, "product_name", "") = ""

extract_service_selection_node(s) ==
    IF number_in(s.user_message) # 0
    THEN IF number_in(s.user_message) <= Len(s.filtered_services)
         THEN [s EXCEPT !.selected_service = s.filtered_services[number_in(s.user_message)],
                        !.service_selected = TRUE]
         ELSE [s EXCEPT !.service_selected = FALSE,
                        !.selection_error = "Invalid service number"]
    ELSE LET hits == {i \in 1 .. Len(s.filtered_services) :
                         names_service(s.filtered_services[i], s.user_message)}
         IN  IF hits # {}
             THEN [s EXCEPT !.selected_service =
                                s.filtered_services[CHOOSE i \in hits : \A j \in hits : i <= j],
                            !.service_selected = TRUE]
             ELSE [s EXCEPT !.service_selected = FALSE,
                            !.selection_error = "Could not understand service selection"]

format_slots_node(s) == transform_node(s, "available_slots", "formatted_slots_message")

calculate_price_node(s) ==
    [s EXCEPT !.total_price =
        DictGet(IF Truthy(s.selected_service) THEN s.selected_service ELSE EmptyDict,
                "base_price", 0)]

\* "yes", "confirm" or "ok" in the lowered message, else "no" or "cancel",
\* on the messages of the model.
extract_confirmation_node(s) ==
    [s EXCEPT !.confirmed =
        CASE s.user_message = "yes" -> "True"
          [] s.user_message = "no" -> "False"
          [] OTHER -> "None"]

\* extract_booking_params calls get on customer, selected_service, vehicle
\* and appointment: it raises when one of them is None.
create_booking_node(s, operation) ==
    call_frappe_node(s, operation, <<"booking_response">>,
        IF s.customer = None \/ s.selected_service = None
           \/ s.vehicle = None \/ s.appointment = None
        THEN "raises" ELSE "ok",
        "log").state

\* The state a node of the graph returns; in holds what the collaborators
\* do in this cycle.
node_result(node, s, in) ==
    CASE node = "entry_router" -> s
      [] node = "lookup_customer" -> lookup_customer_node(s, in.lookup)
      [] node = "fetch_vehicles" -> fetch_vehicles_node(s, in.vehicles)
      [] node = "send_vehicle_options" -> send_message_node(s, "VehicleOptionsBuilder")
      [] node = "extract_vehicle_selection" -> extract_vehicle_selection_node(s)
      [] node = "send_vehicle_error" -> send_message_node(s, "vehicle_selection_error")
      [] node = "send_no_vehicles" -> send_message_node(s, "no_vehicles_message")
      [] node = "send_frappe_error" -> send_message_node(s, "frappe_error_message")
      [] node = "send_greeting" -> send_message_node(s, "GreetingBuilder")
      [] node = "send_please_register" -> send_message_node(s, "please_register")
      [] node = "fetch_services" -> fetch_services_node(s, in.services)
      [] node = "filter_services" -> filter_services_node(s)
      [] node = "send_catalog" -> send_message_node(s, "ServiceCatalogBuilder")
      [] node = "extract_service_selection" -> extract_service_selection_node(s)
      [] node = "send_service_error" -> send_message_node(s, "service_selection_error")
      [] node = "fetch_slots" -> fetch_slots_node(s)
      [] node = "format_slots" -> format_slots_node(s)
      [] node = "send_slots" -> send_message_node(s, "slots_message")
      [] node = "extract_slot_selection" -> extract_slot_selection_node(s)
      [] node = "send_slot_error" -> send_message_node(s, "slot_selection_error")
      [] node = "calculate_price" -> calculate_price_node(s)
      [] node = "send_confirmation" -> send_message_node(s, "BookingConfirmationBuilder")
      [] node = "extract_confirmation" -> extract_confirmation_node(s)
      [] node = "send_confirmation_unclear" -> send_message_node(s, "unclear_message")
      [] node = "create_booking" -> create_booking_node(s, in.booking)
      [] node = "send_success" -> send_message_node(s, "success_message")
      [] node = "send_cancelled" -> send_message_node(s, "cancelled_message")

\* add_conditional_edges: the router of each node that has one.
router_of ==
    [entry_router |-> "check_resume_point",
     lookup_customer |-> "check_customer_exists",
     fetch_vehicles |-> "check_vehicle_selected",
     extract_vehicle_selection |-> "check_vehicle_selected",
     extract_service_selection |-> "check_service_selected",
     extract_slot_selection |-> "check_slot_selected",
     extract_confirmation |-> "check_confirmation"]

\* add_conditional_edges: the edge mapping of each node that has one.
conditional_edges ==
    [entry_router |-> resume_edges,
     lookup_customer |->
        [existing_customer |-> "fetch_vehicles",
         new_customer |-> "send_please_register"],
     fetch_vehicles |->
        [vehicle_selected |-> "send_greeting",
         vehicle_selection_required |-> "send_vehicle_options",
         no_vehicles |-> "send_no_vehicles",
         frappe_error |-> "send_frappe_error"],
     extract_vehicle_selection |->
        [vehicle_selected |-> "send_greeting",
         vehicle_selection_required |-> "send_vehicle_error"],
     extract_service_selection |->
        [service_selected |-> "fetch_slots",
         service_not_selected |-> "send_service_error"],
     extract_slot_selection |->
        [slot_selected |-> "calculate_price",
         slot_not_selected |-> "send_slot_error"],
     extract_confirmation |->
        [confirmed |-> "create_booking",
         cancelled |-> "send_cancelled",
         unclear |-> "send_confirmation_unclear"]]

\* The edges were a slot error to ask the selection node again.
plain_edges_asking_again ==
    [send_vehicle_options |-> "END",
     send_no_vehicles |-> "END",
     send_frappe_error |-> "END",
     send_vehicle_error |-> "END",
     send_greeting |-> "fetch_services",
     fetch_services |-> "filter_services",
     filter_services |-> "send_catalog",
     send_catalog |-> "END",
     send_service_error |-> "END",
     fetch_slots |-> "format_slots",
     format_slots |-> "send_slots",
     send_slots |-> "END",
     send_slot_error |-> "extract_slot_selection",
     calculate_price |-> "send_confirmation",
     send_confirmation |-> "END",
     send_confirmation_unclear |-> "END",
     create_booking |-> "send_success",
     send_success |-> "END",
     send_cancelled |-> "END",
     send_please_register |-> "END"]

\* add_edge: the single successor of every other node.
plain_edges ==
    [send_vehicle_options |-> "END",
     send_no_vehicles |-> "END",
     send_frappe_error |-> "END",
     send_vehicle_error |-> "END",
     send_greeting |-> "fetch_services",
     fetch_services |-> "filter_services",
     filter_services |-> "send_catalog",
     send_catalog |-> "END",
     send_service_error |-> "END",
     fetch_slots |-> "format_slots",
     format_slots |-> "send_slots",
     send_slots |-> "END",
     send_slot_error |-> "END",
     calculate_price |-> "send_confirmation",
     send_confirmation |-> "END",
     send_confirmation_unclear |-> "END",
     create_booking |-> "send_success",
     send_success |-> "END",
     send_cancelled |-> "END",
     send_please_register |-> "END"]

\* One run of the compiled graph from node on: the state it ends with, the
\* nodes it ran, and the routing outcome that had no target in the edge
\* mapping of the last node, if the run ended that way.
RECURSIVE run_graph(_, _, _, _)
run_graph(node, s, in, path) ==
    LET s1 == node_result(node, s, in)
        ran == Append(path, node)
    IN  IF node \in DOMAIN conditional_edges
        THEN LET outcome == route(router_of[node], s1)
             IN  IF outcome \in DOMAIN conditional_edges[node]
                 THEN run_graph(conditional_edges[node][outcome], s1, in, ran)
                 ELSE [state |-> s1, path |-> ran, unmapped |-> outcome]
        ELSE IF plain_edges[node] = "END"
        THEN [state |-> s1, path |-> ran, unmapped |-> ""]
        ELSE run_graph(plain_edges[node], s1, in, ran)

\* The graph is entered at entry_router on every message.
existing_user_booking_workflow(s, in) == run_graph("entry_router", s, in, << >>)

\* The state with which the run of the graph from node on enters target,
\* None when the run ends without executing it.
RECURSIVE state_entering(_, _, _, _)
state_entering(target, node, s, in) ==
    IF node = target THEN s
    ELSE LET s1 == node_result(node, s, in) IN
         IF node \in DOMAIN conditional_edges
         THEN LET outcome == route(router_of[node], s1)
              IN  IF outcome \in DOMAIN conditional_edges[node]
                  THEN state_entering(target, conditional_edges[node][outcome], s1, in)
                  ELSE None
         ELSE IF plain_edges[node] = "END" THEN None
         ELSE state_entering(target, plain_edges[node], s1, in)

\* The state of a conversation after the cycles of these inbound messages,
\* each with what the backend did during its cycle.
RECURSIVE booking_after(_, _)
booking_after(s, cycles) ==
    IF cycles = << >> THEN s
    ELSE booking_after(
             existing_user_booking_workflow(
                 [s EXCEPT !.user_message = Head(cycles).user_message],
                 Head(cycles).in).state,
             Tail(cycles))

----------------------------------------------------------------------------
(* workflows/node_groups/slot_group.py *)

\* for i in range(7)
SlotDays == 7

\* datetime.fromisoformat(preferred_date).date(), today when preferred_date
\* is empty or not an ISO date.
start_date(s) ==
    IF s.preferred_date \in {"", "tomorrow"} THEN "today" ELSE s.preferred_date

\* (start_date + timedelta(days=i)).strftime("%Y-%m-%d"), kept as the pair.
date_str(s, i) == [start |-> start_date(s), days |-> i]

\* The slots of a response: message.slots, else slots, else a list message.
slots_of(response) ==
    IF "message" \in DOMAIN response /\ response.message # << >>
       /\ response.message.slots # << >>
    THEN response.message.slots
    ELSE IF "slots" \in DOMAIN response THEN response.slots
    ELSE << >>

\* One fetched slot, stamped with its date and marked available; time_slot
\* is built from start_time and end_time when the slot has none.
stamp_slot(slot, date) ==
    LET stamped == Overlay(slot, [date |-> date, available |-> TRUE])
    IN  IF "time_slot" \notin DOMAIN slot
           /\ DictGet(slot, "start_time", "") # ""
           /\ DictGet(slot, "end_time", "") # ""
        THEN Overlay(stamped, [time_slot |-> slot.start_time \o " - " \o slot.end_time])
        ELSE stamped

\* slot.get("available", True) is not False
RECURSIVE available_slots_of(_, _)
available_slots_of(slots, date) ==
    IF slots = << >> THEN << >>
    ELSE (IF DictGet(Head(slots), "available", TRUE)
          THEN <<stamp_slot(Head(slots), date)>> ELSE << >>)
         \o available_slots_of(Tail(slots), date)

\* The loop, were it to stop at the first failing call.
RECURSIVE fetch_days_until_failure(_, _, _, _)
fetch_days_until_failure(s, week, i, acc) ==
    IF i = SlotDays THEN acc
    ELSE IF ~week[i].ok
    THEN [all_slots |-> acc.all_slots, collaborator_calls |-> acc.collaborator_calls + 1]
    ELSE fetch_days_until_failure(s, week, i + 1,
            [all_slots |-> acc.all_slots \o
                 available_slots_of(slots_of(week[i].result), date_str(s, i)),
             collaborator_calls |-> acc.collaborator_calls + 1])

\* The loop over the days from day i on: week[i] is what
\* get_available_slots_enhanced does for day i, and acc holds all_slots and
\* the number of collaborator calls made so far.
RECURSIVE fetch_days(_, _, _, _)
fetch_days(s, week, i, acc) ==
    IF i = SlotDays THEN acc
    ELSE fetch_days(s, week, i + 1,
            [all_slots |-> acc.all_slots \o
                 (IF week[i].ok
                  THEN available_slots_of(slots_of(week[i].result), date_str(s, i))
                  ELSE << >>),
             collaborator_calls |-> acc.collaborator_calls + 1])

\* fetch_slots: the state it returns and the collaborator calls it made.
fetch_slots(s, week) ==
    IF ~Truthy(s.selected_service) \/ DictGet(s.selected_service, "name", "") = ""
    THEN [state |-> [s EXCEPT !.slot_options = << >>], collaborator_calls |-> 0]
    ELSE LET r == fetch_days(s, week, 0, [all_slots |-> << >>, collaborator_calls |-> 0])
         IN  [state |-> [s EXCEPT !.slot_options = r.all_slots],
              collaborator_calls |-> r.collaborator_calls]

\* handle_selection(state, selection_type, options_key, selected_key): the
\* generic selection handler, which takes the option the message numbers.
handle_selection(s, options_key, selected_key) ==
    LET n == number_in(s.user_message) IN
    IF n # 0 /\ n <= Len(s[options_key])
    THEN [s EXCEPT ![selected_key] = s[options_key][n], !.selection_error = ""]
    ELSE [s EXCEPT !.selection_error = "Invalid selection. Please try again."]

route_after_selection(s) ==
    IF s.selection_error # "" THEN "selection_error" ELSE "selection_success"

\* handle_selection_error(state, awaiting_step)
handle_selection_error(s, awaiting_step) ==
    [send_message_node(s, s.selection_error) EXCEPT
        !.should_proceed = FALSE, !.current_step = awaiting_step]

\* create_resume_router(awaiting_step, resume_node, fresh_node,
\* readiness_check) for the entry of the slot group.
route_slot_entry(s) ==
    IF s.current_step = "awaiting_slot_selection" /\ s.filtered_slot_options # << >>
    THEN "process_selection" ELSE "fetch_slots"

format_and_send_slots(s) ==
    LET filtered == transform_node(s, "slot_options", "filtered_slot_options")
        grouped == transform_node(filtered, "filtered_slot_options", "grouped_slots")
    IN  [send_message_node(grouped, "GroupedSlotsBuilder") EXCEPT
            !.should_proceed = FALSE,
            !.current_step = "awaiting_slot_selection"]

ensure_filtered_slots(s) ==
    IF s.filtered_slot_options = << >> /\ s.slot_options # << >>
    THEN transform_node(s, "slot_options", "filtered_slot_options")
    ELSE s

process_slot_selection(s) ==
    LET r == handle_selection(ensure_filtered_slots(ensure_filtered_slots(s)),
                              "filtered_slot_options", "slot")
    IN  IF r.slot # None
        THEN [r EXCEPT !.current_step = "", !.should_proceed = TRUE]
        ELSE r

\* The compiled slot group: entry, then fetch_slots and show_slots, or
\* process_selection and, on a selection error, send_error.
slot_group(s, week) ==
    IF route_slot_entry(s) = "fetch_slots"
    THEN format_and_send_slots(fetch_slots(s, week).state)
    ELSE LET r == process_slot_selection(s) IN
         IF route_after_selection(r) = "selection_error"
         THEN handle_selection_error(r, "awaiting_slot_selection")
         ELSE r

----------------------------------------------------------------------------
(* workflows/node_groups/vehicle_group.py *)

skip_vehicle_selection(s) == [s EXCEPT !.should_proceed = TRUE]

check_if_vehicle_needed(s) ==
    IF s.vehicle_selected THEN "skip"
    ELSE IF Len(s.vehicle_options) = 0 THEN "skip"
    ELSE "select"

show_vehicle_options(s) == send_message_node(s, "VehicleOptionsBuilder")

process_vehicle_selection(s) == handle_selection(s, "vehicle_options", "vehicle")

send_vehicle_error(s) ==
    [send_message_node(s, s.selection_error) EXCEPT !.should_proceed = FALSE]

\* The compiled vehicle group: skip_selection, then END, or show_options,
\* process_selection and, on a selection error, send_error.
vehicle_group(s) ==
    LET s1 == skip_vehicle_selection(s) IN
    IF check_if_vehicle_needed(s1) = "skip" THEN s1
    ELSE LET r == process_vehicle_selection(show_vehicle_options(s1)) IN
         IF route_after_selection(r) = "selection_error"
         THEN send_vehicle_error(r)
         ELSE r

\* The nodes one run of the compiled vehicle group executes, in order: the
\* entry point, then what the edges of create_vehicle_group lead to.
vehicle_group_nodes(s) ==
    LET s1 == skip_vehicle_selection(s) IN
    IF check_if_vehicle_needed(s1) = "skip" THEN <<"skip_selection">>
    ELSE LET r == process_vehicle_selection(show_vehicle_options(s1)) IN
         IF route_after_selection(r) = "selection_error"
         THEN <<"skip_selection", "show_options", "process_selection", "send_error">>
         ELSE <<"skip_selection", "show_options", "process_selection">>

----------------------------------------------------------------------------
(* workflows/booking_workflow_v2.py *)

\* workflow.add_node: the groups, in the order the edges chain them.
Groups ==
    <<"profile_check", "vehicle_selection", "service_selection",
      "slot_selection", "booking_confirmation">>

\* set_entry_point and add_edge: the successor of each group.
group_edges ==
    [profile_check |-> "vehicle_selection",
     vehicle_selection |-> "service_selection",
     service_selection |-> "slot_selection",
     slot_selection |-> "booking_confirmation",
     booking_confirmation |-> "END"]

\* A group that pauses for the user or hands on, as the profile, service
\* and booking groups do: outcome is "pauses" or "proceeds".
other_group(s, outcome) == [s EXCEPT !.should_proceed = (outcome = "proceeds")]

\* The state a group returns; in holds what the other groups and the slot
\* backend do in this cycle.
group_result(group, s, in) ==
    CASE group = "vehicle_selection" -> vehicle_group(s)
      [] group = "slot_selection" -> slot_group(s, in.week)
      [] OTHER -> other_group(s, in[group])

\* The successor of a group: its edge, whatever state the group returned.
group_successor(group, s) == group_edges[group]

\* One run of the composed workflow from group on: the state it ends with
\* and, for every group it executed, whether the group left should_proceed
\* false.
RECURSIVE run_groups(_, _, _, _)
run_groups(group, s, in, ran) ==
    LET s1 == group_result(group, s, in)
        trace == Append(ran, [group |-> group, paused |-> ~s1.should_proceed])
    IN  IF group_successor(group, s1) = "END"
        THEN [state |-> s1, groups |-> trace]
        ELSE run_groups(group_successor(group, s1), s1, in, trace)

booking_workflow(s, in) == run_groups("profile_check", s, in, << >>)

----------------------------------------------------------------------------
(* clients/frappe_yawlit/config.py and the client singleton of call_frappe.py *)

\* session_token of a client that has not logged in.
NoSession == ""

\* FrappeClientConfig(): the credentials come from the settings.
FrappeClientConfig ==
    [api_key |-> "frappe_api_key",
     api_secret |-> "frappe_api_secret",
     session_token |-> NoSession]

get_auth_headers(config) ==
    IF config.session_token # NoSession
    THEN [Cookie |-> "sid=" \o config.session_token]
    ELSE IF config.api_key # "" /\ config.api_secret # ""
    THEN [Authorization |-> "token " \o config.api_key \o ":" \o config.api_secret]
    ELSE EmptyDict

\* The client a new YawlitClient() is.
YawlitClient == [config |-> FrappeClientConfig]

\* get_yawlit_client(): _yawlit_client is the module global, None before
\* the first call.
get_yawlit_client(_yawlit_client) ==
    IF _yawlit_client = None THEN YawlitClient ELSE _yawlit_client

\* The singleton after a cycle, were the cycle to log its customer in.
client_after_cycle_logging_in(_yawlit_client, conversation_id) ==
    [get_yawlit_client(_yawlit_client) EXCEPT !.config.session_token = conversation_id]

\* The singleton after the nodes of one cycle of a conversation have
\* fetched it: none of them logs in or out.
client_after_cycle(_yawlit_client, conversation_id) ==
    get_yawlit_client(_yawlit_client)

----------------------------------------------------------------------------
(* clients/frappe_yawlit/utils/http_client.py *)
(* What one call of self.client.request does is an attempt outcome: kind   *)
(* "timeout" (httpx.TimeoutException), "network" (httpx.NetworkError),     *)
(* "other" (any other exception) or "response" with its status_code and    *)
(* whether response.json() parses.                                          *)

\* max_retries of a client built without the argument.
DefaultMaxRetries == 3

\* _handle_error: the exception raised for the status code of a response.
handle_error(status_code) ==
    IF status_code \in {401, 403} THEN "AuthenticationError"
    ELSE IF status_code = 404 THEN "NotFoundError"
    ELSE IF status_code = 422 THEN "ValidationError"
    ELSE IF status_code >= 500 THEN "ServerError"
    ELSE "FrappeAPIError"

\* What a call that ends with an exception, or with a result, gives back.
Raises(attempts, exception) == [attempts |-> attempts, raised |-> exception, result |-> None]

Returns(attempts, result) == [attempts |-> attempts, raised |-> "", result |-> result]

\* The loop were a 5xx response counted and re-attempted as a timeout is.
RECURSIVE attempts_retrying_server_errors(_, _, _, _)
attempts_retrying_server_errors(max_retries, outcomes, retries, attempts) ==
    IF ~(retries < max_retries)
    THEN IF retries > 0 THEN Raises(attempts, "NetworkError") ELSE Returns(attempts, None)
    ELSE LET outcome == outcomes[attempts + 1] IN
         CASE outcome.kind = "response" /\ outcome.status_code >= 500 ->
                  IF retries + 1 >= max_retries
                  THEN Raises(attempts + 1, "ServerError")
                  ELSE attempts_retrying_server_errors(max_retries, outcomes,
                                                       retries + 1, attempts + 1)
           [] outcome.kind = "response" /\ outcome.status_code < 500 ->
                  IF outcome.status_code >= 400
                  THEN Raises(attempts + 1, handle_error(outcome.status_code))
                  ELSE IF outcome.json_ok
                  THEN Returns(attempts + 1, [status_code |-> outcome.status_code])
                  ELSE Raises(attempts + 1, "FrappeAPIError")
           [] outcome.kind \in {"timeout", "network"} ->
                  IF retries + 1 >= max_retries
                  THEN Raises(attempts + 1,
                              IF outcome.kind = "timeout" THEN "TimeoutError"
                              ELSE "NetworkError")
                  ELSE attempts_retrying_server_errors(max_retries, outcomes,
                                                       retries + 1, attempts + 1)
           [] OTHER -> Raises(attempts + 1, "FrappeAPIError")

request_retrying_server_errors(max_retries, outcomes) ==
    attempts_retrying_server_errors(max_retries, outcomes, 0, 0)

\* The while loop of _request from the iteration with this value of
\* retries on, attempts calls of self.client.request having been made:
\* the number of calls made in all and the exception raised or the result
\* returned.
RECURSIVE attempts_from(_, _, _, _)
attempts_from(max_retries, outcomes, retries, attempts) ==
    IF ~(retries < max_retries)
    THEN \* after the loop: raise if last_exception, else fall off the end
         IF retries > 0 THEN Raises(attempts, "NetworkError") ELSE Returns(attempts, None)
    ELSE LET outcome == outcomes[attempts + 1] IN
         CASE outcome.kind = "response" ->
                  IF outcome.status_code >= 400
                  THEN \* _handle_error raises; except FrappeAPIError: raise
                       Raises(attempts + 1, handle_error(outcome.status_code))
                  ELSE IF outcome.json_ok
                  THEN Returns(attempts + 1, [status_code |-> outcome.status_code])
                  ELSE \* response.json() raises; except Exception
                       Raises(attempts + 1, "FrappeAPIError")
           [] outcome.kind = "timeout" ->
                  IF retries + 1 >= max_retries
                  THEN Raises(attempts + 1, "TimeoutError")
                  ELSE attempts_from(max_retries, outcomes, retries + 1, attempts + 1)
           [] outcome.kind = "network" ->
                  IF retries + 1 >= max_retries
                  THEN Raises(attempts + 1, "NetworkError")
                  ELSE attempts_from(max_retries, outcomes, retries + 1, attempts + 1)
           [] OTHER -> Raises(attempts + 1, "FrappeAPIError")

\* AsyncHTTPClient._request: retries = 0, then the loop.
request(max_retries, outcomes) == attempts_from(max_retries, outcomes, 0, 0)

----------------------------------------------------------------------------
(* core/dual_checkpointer.py *)

\* A saver (MemorySaver, AsyncSqliteSaver) keeps, for every thread_id, the
\* checkpoint tuples put under it; a tuple is [thread_id, id, channel_values]
\* and the ids grow with time.  NoConfig is a config of None, NoLimit a limit
\* of None.
NoConfig == ""
NoLimit == 0

saver_aput(saver, tuple) == [saver EXCEPT ![tuple.thread_id] = @ \cup {tuple}]

\* The config a saver's aput returns.
saver_config(tuple) == [thread_id |-> tuple.thread_id, checkpoint_id |-> tuple.id]

newest(tuples) == CHOOSE c \in tuples : \A d \in tuples : d.id <= c.id

saver_aget_tuple(saver, thread_id) ==
    IF saver[thread_id] = {} THEN None ELSE newest(saver[thread_id])

RECURSIVE newest_first(_)
newest_first(tuples) ==
    IF tuples = {} THEN << >>
    ELSE <<newest(tuples)>> \o newest_first(tuples \ {newest(tuples)})

matching(saver, config) ==
    UNION {saver[thread_id] :
              thread_id \in IF config = NoConfig THEN DOMAIN saver ELSE {config}}

saver_alist(saver, config, limit) ==
    LET all == newest_first(matching(saver, config))
    IN  IF limit = NoLimit \/ Len(all) <= limit THEN all ELSE SubSeq(all, 1, limit)

\* aput, were a failure of the SQLite save to reach the caller.
aput_propagating(self, tuple, sqlite_ok) ==
    [self |-> [self EXCEPT !.memory = saver_aput(@, tuple),
                           !.sqlite = IF sqlite_ok THEN saver_aput(@, tuple) ELSE @],
     result |-> IF sqlite_ok THEN saver_config(tuple) ELSE None,
     raised |-> ~sqlite_ok,
     tiers |-> <<"memory.aput", "sqlite.aput">>]

\* DualCheckpointer.aput; sqlite_ok is whether the SQLite save succeeds.
aput(self, tuple, sqlite_ok) ==
    LET result == saver_config(tuple)
        saved == [self EXCEPT !.memory = saver_aput(@, tuple)]
    IN  [self |-> IF sqlite_ok
                  THEN [saved EXCEPT !.sqlite = saver_aput(@, tuple)]
                  ELSE saved,
         result |-> result,
         raised |-> FALSE,
         tiers |-> <<"memory.aput", "sqlite.aput">>]

\* aget_tuple, were the checkpoint found in SQLite not put back in memory.
aget_tuple_forgetting(self, thread_id, sqlite_ok) ==
    LET result == saver_aget_tuple(self.memory, thread_id) IN
    IF result # None
    THEN [self |-> self, result |-> result, tiers |-> <<"memory.aget_tuple">>]
    ELSE [self |-> self,
          result |-> IF sqlite_ok THEN saver_aget_tuple(self.sqlite, thread_id) ELSE None,
          tiers |-> <<"memory.aget_tuple", "sqlite.aget_tuple">>]

\* DualCheckpointer.aget_tuple; sqlite_ok is whether the SQLite load succeeds.
aget_tuple(self, thread_id, sqlite_ok) ==
    LET result == saver_aget_tuple(self.memory, thread_id) IN
    IF result # None
    THEN [self |-> self, result |-> result, tiers |-> <<"memory.aget_tuple">>]
    ELSE IF ~sqlite_ok
    THEN [self |-> self, result |-> None,
          tiers |-> <<"memory.aget_tuple", "sqlite.aget_tuple">>]
    ELSE LET restored == saver_aget_tuple(self.sqlite, thread_id) IN
         IF restored # None
         THEN [self |-> [self EXCEPT !.memory = saver_aput(@, restored)],
               result |-> restored,
               tiers |-> <<"memory.aget_tuple", "sqlite.aget_tuple", "memory.aput">>]
         ELSE [self |-> self, result |-> restored,
               tiers |-> <<"memory.aget_tuple", "sqlite.aget_tuple">>]

\* DualCheckpointer.alist: what it yields, each entry with the tier it came
\* from; sqlite_ok is whether the SQLite listing succeeds.
alist(self, config, limit, sqlite_ok) ==
    LET fast == saver_alist(self.memory, config, limit)
        seen_ids == {fast[i].thread_id : i \in 1 .. Len(fast)}
        durable == IF sqlite_ok
                   THEN SelectSeq(saver_alist(self.sqlite, config, limit),
                                  LAMBDA checkpoint : checkpoint.thread_id \notin seen_ids)
                   ELSE << >>
    IN  [i \in 1 .. Len(fast) |-> [tier |-> "memory", checkpoint |-> fast[i]]]
        \o [i \in 1 .. Len(durable) |-> [tier |-> "sqlite", checkpoint |-> durable[i]]]

----------------------------------------------------------------------------
(* Inputs *)

NewDatas ==
    {[first_name |-> "Shukriya"],
     [first_name |-> "Sneha", last_name |-> "Reddy"],
     [first_name |-> "Shukriya", confidence |-> 9]}

\* Targets a merge sequence may start from.
InitTargets ==
    {None, Missing, EmptyDict,
     [first_name |-> "Sneha", last_name |-> "Reddy"],
     [first_name |-> "Sneha", last_name |-> "Reddy", confidence |-> 7]}

\* api/v1/chat_endpoint.py:51-69
InitialState ==
    [customer |-> None,
     vehicle |-> None,
     appointment |-> None,
     customer_lookup_response |-> Missing,
     vehicles_response |-> Missing,
     vehicle_options |-> << >>,
     vehicle_selected |-> FALSE,
     frappe_error |-> "",
     available_slots |-> << >>,
     slot_selected |-> FALSE,
     selection_error |-> "",
     user_message |-> "",
     current_step |-> "extract_name",
     errors |-> << >>,
     response |-> "",
     conversation_id |-> "919876543210",
     should_proceed |-> TRUE,
     checkpoints |-> << >>,
     selected_service |-> None,
     filtered_services |-> << >>,
     service_selected |-> FALSE,
     confirmed |-> "None",
     preferred_date |-> "",
     slot_options |-> << >>,
     services_response |-> Missing,
     all_services |-> << >>,
     formatted_slots_message |-> "",
     total_price |-> 0,
     booking_response |-> Missing,
     slot |-> None,
     filtered_slot_options |-> << >>,
     grouped_slots |-> << >>]

ConversationIds == {"919876543210", "919123456789"}

\* The state process_chat builds for one inbound message.
process_chat_state(conversation_id, user_message) ==
    [InitialState EXCEPT !.conversation_id = conversation_id,
                         !.user_message = user_message]

CheckpointNames == {"customer_confirmed", "error_occurred"}

NoOp == [op |-> "none"]

LookupFound ==
    [exists |-> TRUE,
     data |-> [customer_uuid |-> "CUST-2025-001", first_name |-> "Sneha",
               last_name |-> "Reddy", enabled |-> 1]]

LookupAbsent == [exists |-> FALSE]

\* What the LLM predicts: a name, blanks, or no name fields at all.
Predictions ==
    {[first_name |-> " Sneha ", last_name |-> "Reddy", confidence |-> 9],
     [first_name |-> " ", last_name |-> "", confidence |-> 9],
     [confidence |-> 9]}

DspyOutcomes ==
    {[ok |-> FALSE]}
    \cup {[ok |-> TRUE, result |-> NameExtractor_call(prediction)] :
              prediction \in Predictions}

Vehicle1 ==
    [name |-> "VEH-001", vehicle_make |-> "TATA", vehicle_model |-> "Punch",
     vehicle_number |-> "WB01AB1234", vehicle_type |-> "Hatchback"]

Vehicle2 ==
    [name |-> "VEH-002", vehicle_make |-> "Honda", vehicle_model |-> "City",
     vehicle_number |-> "WB02CD5678", vehicle_type |-> "Sedan"]

VehicleResponses ==
    {[message |-> [success |-> FALSE, message |-> "Customer profile not found"]],
     [message |-> [success |-> TRUE, vehicles |-> << >>]],
     [message |-> [success |-> TRUE, vehicles |-> <<Vehicle1>>]],
     [vehicles |-> <<Vehicle1, Vehicle2>>]}

LookupOperations ==
    {[ok |-> TRUE, result |-> r] : r \in {LookupFound, LookupAbsent}}
    \cup {[ok |-> FALSE, exception |-> e] : e \in {"NotFoundError", "NetworkError"}}

VehicleOperations ==
    {[ok |-> TRUE, result |-> r] : r \in VehicleResponses}
    \cup {[ok |-> FALSE, exception |-> "ServerError"]}

Failures == {[ok |-> FALSE, exception |-> e] : e \in ExceptionClasses}

FrappeOperations == {[ok |-> TRUE, result |-> r] : r \in {LookupFound, LookupAbsent}} \cup Failures

ResultPaths == {<<"customer_lookup_response">>, <<"vehicles_response">>}

FailurePolicies == {"log", "raise", "clear"}

StateExtractors == {"None", "ok", "raises"}

Service1 == [name |-> "SRV-001", product_name |-> "Premium Wash"]

SlotResponses ==
    {[message |-> [slots |-> << >>]],
     [message |-> [slots |-> <<[slot_id |-> "SLOT-001", start_time |-> "10:00",
                                end_time |-> "12:00"],
                               [slot_id |-> "SLOT-002", time_slot |-> "2:00 PM - 4:00 PM",
                                available |-> FALSE]>>]],
     [slots |-> <<[slot_id |-> "SLOT-003", time_slot |-> "10:00 AM - 12:00 PM",
                   available |-> TRUE]>>]}

\* What get_available_slots_enhanced does on each of the days 0 .. 6.
SlotWeeks ==
    {[i \in 0 .. SlotDays - 1 |-> [ok |-> FALSE]],
     [i \in 0 .. SlotDays - 1 |-> [ok |-> TRUE, result |-> [message |-> [slots |-> << >>]]]]}
    \cup {[i \in 0 .. SlotDays - 1 |->
              IF i = 0 THEN [ok |-> TRUE, result |-> r]
              ELSE IF i = 1 THEN [ok |-> FALSE]
              ELSE [ok |-> TRUE, result |-> [slots |-> << >>]]] : r \in SlotResponses}

\* The service and the preferred date the slot group may start from.
CollabStarts ==
    {[selected_service |-> None, preferred_date |-> ""],
     [selected_service |-> Service1, preferred_date |-> "2025-12-27"],
     [selected_service |-> Service1, preferred_date |-> "tomorrow"]}

\* The states a router may be asked to decide on.
RouterStates ==
    {[InitialState EXCEPT !.vehicle_options = vehicle_options,
                          !.vehicle_selected = vehicle_selected,
                          !.filtered_services = filtered_services,
                          !.service_selected = service_selected,
                          !.available_slots = available_slots,
                          !.slot_selected = slot_selected,
                          !.selected_service = selected_service,
                          !.confirmed = confirmed,
                          !.customer = customer,
                          !.frappe_error = frappe_error] :
        vehicle_options \in {<< >>, <<Vehicle1, Vehicle2>>},
        vehicle_selected \in BOOLEAN,
        filtered_services \in {<< >>, <<Service1>>},
        service_selected \in BOOLEAN,
        available_slots \in {<< >>, MockSlots},
        slot_selected \in BOOLEAN,
        selected_service \in {None, Service1},
        confirmed \in {"None", "True", "False"},
        customer \in {None, LookupFound.data},
        frappe_error \in {"", "Customer profile not found"}}

BookingMessages == {"hi", "1", "2025-12-27 please", "yes", "no"}

\* What the booking backend does during one processing cycle.
Backends ==
    {[lookup |-> [ok |-> TRUE, result |-> LookupFound],
      vehicles |-> [ok |-> TRUE, result |-> [vehicles |-> <<Vehicle1, Vehicle2>>]],
      services |-> [ok |-> TRUE, result |-> [message |-> [services |-> <<Service1>>]]],
      booking |-> [ok |-> TRUE, result |-> [message |-> [booking_id |-> "BK-001"]]]],
     [lookup |-> [ok |-> TRUE, result |-> LookupFound],
      vehicles |-> [ok |-> TRUE,
                    result |-> [message |-> [success |-> FALSE,
                                             message |-> "Customer profile not found"]]],
      services |-> [ok |-> FALSE, exception |-> "ServerError"],
      booking |-> [ok |-> FALSE, exception |-> "ServerError"]],
     [lookup |-> [ok |-> TRUE, result |-> LookupFound],
      vehicles |-> [ok |-> TRUE, result |-> [message |-> [success |-> TRUE, vehicles |-> <<Vehicle1>>]]],
      services |-> [ok |-> TRUE, result |-> [services |-> <<Service1>>]],
      booking |-> [ok |-> FALSE, exception |-> "NetworkError"]],
     [lookup |-> [ok |-> TRUE, result |-> LookupAbsent],
      vehicles |-> [ok |-> TRUE, result |-> [message |-> [success |-> TRUE, vehicles |-> << >>]]],
      services |-> [ok |-> TRUE, result |-> [services |-> << >>]],
      booking |-> [ok |-> FALSE, exception |-> "ValidationError"]]}

\* What the backend answers to requests carrying these headers, in being
\* its answers to the API key: get_vehicles takes no parameter and answers
\* with the vehicles of the account the credentials belong to.
backend_answers(headers, in) ==
    IF "Cookie" \in DOMAIN headers
    THEN [in EXCEPT !.vehicles =
             [ok |-> TRUE,
              result |-> [message |-> [success |-> TRUE,
                                       vehicles |-> <<Vehicle2>>]]]]
    ELSE in

\* A backend that knows the customer, with one vehicle and one service.
OneVehicleBackend ==
    CHOOSE in \in Backends :
        /\ in.lookup.result = LookupFound
        /\ in.vehicles.result = [message |-> [success |-> TRUE, vehicles |-> <<Vehicle1>>]]

\* The cycles of a conversation that greets, picks the service, names the
\* day and is then asked to confirm.
BookingConversation ==
    <<[user_message |-> "hi", in |-> OneVehicleBackend],
      [user_message |-> "1", in |-> OneVehicleBackend],
      [user_message |-> "2025-12-27 please", in |-> OneVehicleBackend]>>

\* The states of that conversation after none, one, two and all of these
\* cycles.
BookingStarts ==
    {booking_after(InitialState, SubSeq(BookingConversation, 1, n)) :
        n \in 0 .. Len(BookingConversation)}

\* What the groups that are not the vehicle or the slot group, and the slot
\* backend, do during one cycle of the composed workflow.
GroupInputs ==
    {[profile_check |-> p, service_selection |-> v, booking_confirmation |-> b,
      week |-> w] :
        p \in {"proceeds"}, v \in {"pauses", "proceeds"}, b \in {"pauses", "proceeds"},
        w \in {[i \in 0 .. SlotDays - 1 |-> [ok |-> FALSE]],
               [i \in 0 .. SlotDays - 1 |->
                   IF i = 0
                   THEN [ok |-> TRUE,
                         result |-> [slots |-> <<[slot_id |-> "SLOT-003",
                                                  time_slot |-> "10:00 AM - 12:00 PM",
                                                  available |-> TRUE]>>]]
                   ELSE [ok |-> FALSE]]}}

\* The states the composed workflow may be entered with.
GroupStarts ==
    {[InitialState EXCEPT !.customer = LookupFound.data,
                          !.vehicle_options = vehicle_options,
                          !.selected_service = selected_service] :
        vehicle_options \in {<< >>, <<Vehicle1, Vehicle2>>},
        selected_service \in {None, Service1}}

\* A str value, where its type matters.
Str(text) == [scalar |-> text]

\* States for get_nested_field and set_nested_field: the customer absent,
\* None, a str, and dicts with and without an address.
FieldStates ==
    {[customer |-> customer, vehicle |-> vehicle, appointment |-> Missing] :
        customer \in {Missing, None, Str("Sneha"), EmptyDict,
                      [first_name |-> Str("Sneha")],
                      [first_name |-> Str("Sneha"), address |-> None],
                      [first_name |-> Str("Sneha"), address |-> Str("Pune")],
                      [first_name |-> Str("Sneha"), address |-> [city |-> Str("Pune")]]},
        vehicle \in {None, [brand |-> Str("TATA")]}}

\* "customer", "customer.first_name", "customer.address.city", ...
FieldPaths ==
    {<<"customer">>, <<"customer", "first_name">>, <<"customer", "address">>,
     <<"customer", "address", "city">>, <<"vehicle", "brand">>,
     <<"appointment", "slot", "date">>}

FieldValues == {Str("Asha"), None}

\* The lookup response of tests/unit/test_customer_lookup.py.
TestLookupFound ==
    [exists |-> TRUE,
     data |-> [customer_uuid |-> "CUST-2025-001", first_name |-> "Hrijul",
               last_name |-> "Dey", enabled |-> 1]]

\* The states the routing tests build: a lookup response, or none, and no
\* customer.
LookupStarts ==
    {[InitialState EXCEPT !.customer_lookup_response = response] :
        response \in {Missing, TestLookupFound, LookupFound, LookupAbsent}}

\* What a checkpoint holds of its conversation.
ChannelValues == {"awaiting_vehicle_selection", "awaiting_slot_selection"}

\* The checkpoint a conversation left in SQLite before this process started.
EarlierTuple ==
    [thread_id |-> "919876543210", id |-> 0,
     channel_values |-> "awaiting_vehicle_selection"]

EmptySaver == [thread_id \in ConversationIds |-> {}]

\* The checkpointer of a process that has just started, with the newest
\* checkpoint whose aput returned, per conversation.
CheckpointerStarts ==
    {[memory |-> EmptySaver,
      sqlite |-> EmptySaver,
      acknowledged |-> [thread_id \in ConversationIds |-> None]],
     [memory |-> EmptySaver,
      sqlite |-> saver_aput(EmptySaver, EarlierTuple),
      acknowledged |-> [thread_id \in ConversationIds |->
                          IF thread_id = EarlierTuple.thread_id
                          THEN EarlierTuple ELSE None]]}

ListLimits == {NoLimit, 1}

\* What a Pydantic model does with the data it is given.
ValidationModels ==
    {[ok |-> TRUE, validated |-> [first_name |-> "Sneha"]],
     [ok |-> FALSE, exception |-> "ValidationError",
      errors |-> <<[loc |-> "first_name", type |-> "string_too_short"]>>],
     [ok |-> FALSE, exception |-> "ValidationError",
      errors |-> <<[loc |-> "first_name", type |-> "string_too_short"],
                   [loc |-> "last_name", type |-> "missing"]>>],
     [ok |-> FALSE, exception |-> "Exception"]}

\* Data a validation sequence may start from.
ValidateTargets ==
    {None, EmptyDict, [first_name |-> "S"],
     [first_name |-> "Sneha", last_name |-> "Reddy", confidence |-> 9]}

\* What an attempt of a request can meet.
AttemptOutcomes ==
    {[kind |-> "timeout"], [kind |-> "network"], [kind |-> "other"]}
    \cup {[kind |-> "response", status_code |-> 200, json_ok |-> json_ok] :
              json_ok \in BOOLEAN}
    \cup {[kind |-> "response", status_code |-> status_code, json_ok |-> TRUE] :
              status_code \in {400, 401, 404, 422, 503}}

\* The clients: max_retries as the constructor was given it.
HttpClients == {[max_retries |-> n] : n \in 1 .. DefaultMaxRetries}

----------------------------------------------------------------------------
(* Actions *)

MergeCall(fns) ==
    /\ calls < MaxCalls
    /\ \E new_data \in NewDatas, new_confidence \in Confidences,
          merge_fn \in fns, turn \in Turns :
        /\ state' = merge_node(state, new_data, <<"customer">>,
                               new_confidence, merge_fn, turn)
        /\ last' = [op |-> "merge",
                    pre |-> get_nested_field(state, <<"customer">>),
                    new_data |-> new_data,
                    new_confidence |-> new_confidence,
                    merge_fn |-> merge_fn,
                    turn |-> turn]
        /\ allDefault' = (allDefault /\ merge_fn = "None")
        /\ maxConf' = Max(maxConf, new_confidence)
        /\ maxData' = IF new_confidence > maxConf THEN new_data ELSE maxData
    /\ calls' = calls + 1
    /\ UNCHANGED fromNull

FetchSlotsNode ==
    /\ calls < MaxCalls
    /\ state' = fetch_slots_node(state)
    /\ last' = [op |-> "fetch_slots"]
    /\ calls' = calls + 1
    /\ UNCHANGED <<fromNull, allDefault, maxConf, maxData>>

ExtractSlotSelectionNode ==
    /\ calls < MaxCalls
    /\ state' = extract_slot_selection_node(state)
    /\ last' = [op |-> "extract_slot_selection", pre |-> state.appointment]
    /\ calls' = calls + 1
    /\ UNCHANGED <<fromNull, allDefault, maxConf, maxData>>

\* merge.node with any strategy.
MergeNode == MergeCall(MergeFns)

\* merge.node with the default strategy.
MergeDefault == MergeCall({"None"})

ExtractNameNode ==
    /\ calls < MaxCalls
    /\ \E dspy \in DspyOutcomes :
        /\ state' = extract_name_node(state, dspy)
        /\ last' = [op |-> "extract_name", pre |-> state.customer, dspy |-> dspy,
                    pre_errors |-> state.errors,
                    tiers |-> extract_name_tiers(state, dspy)]
    /\ calls' = calls + 1
    /\ UNCHANGED <<fromNull, allDefault, maxConf, maxData>>

LookupCustomerNode ==
    /\ calls < MaxCalls
    /\ \E operation \in LookupOperations :
        /\ state' = lookup_customer_node(state, operation)
        /\ last' = [op |-> "lookup_customer", pre |-> state.customer,
                    operation |-> operation]
    /\ calls' = calls + 1
    /\ UNCHANGED <<fromNull, allDefault, maxConf, maxData>>

FetchVehiclesNode ==
    /\ calls < MaxCalls
    /\ \E operation \in VehicleOperations :
        /\ state' = fetch_vehicles_node(state, operation)
        /\ last' = [op |-> "fetch_vehicles", pre |-> state.vehicle,
                    operation |-> operation]
    /\ calls' = calls + 1
    /\ UNCHANGED <<fromNull, allDefault, maxConf, maxData>>

\* One call of call_frappe.node with any operation, path, extractor and policy.
CallFrappeNode ==
    /\ calls < MaxCalls
    /\ \E result_path \in ResultPaths, state_extractor \in StateExtractors,
          on_failure \in FailurePolicies :
       \E operation \in IF state_extractor = "raises" THEN {[ok |-> FALSE, exception |-> "Exception"]}
                         ELSE FrappeOperations :
        LET r == call_frappe_node(state, operation, result_path, state_extractor, on_failure)
        IN  /\ state' = r.state
            /\ last' = [op |-> "call_frappe",
                        pre |-> get_nested_field(state, result_path),
                        pre_errors |-> state.errors,
                        result_path |-> result_path,
                        state_extractor |-> state_extractor,
                        operation |-> operation,
                        on_failure |-> on_failure,
                        raised |-> r.raised,
                        collaborator_calls |-> call_frappe_calls(state_extractor)]
    /\ calls' = calls + 1
    /\ UNCHANGED <<fromNull, allDefault, maxConf, maxData>>

\* One execution of the fetch_slots node of the slot group.
FetchSlots ==
    /\ calls < MaxCalls
    /\ \E week \in SlotWeeks :
        LET r == fetch_slots(state, week)
        IN  /\ state' = r.state
            /\ last' = [op |-> "slot_group.fetch_slots",
                        pre_selected_service |-> state.selected_service,
                        week |-> week,
                        collaborator_calls |-> r.collaborator_calls]
    /\ calls' = calls + 1
    /\ UNCHANGED <<fromNull, allDefault, maxConf, maxData>>

\* The graph asks a router for its decision. prev_router and prev_decision
\* are the router and the decision of the step before, when that was a
\* router call too.
Route ==
    /\ calls < MaxCalls
    /\ \E router \in Routers :
        /\ state' = routed_state(router, state)
        /\ last' = [op |-> "route",
                    router |-> router,
                    decision |-> route(router, state),
                    pre |-> state,
                    prev_router |-> IF last.op = "route" THEN last.router ELSE "",
                    prev_decision |-> IF last.op = "route" THEN last.decision ELSE ""]
    /\ calls' = calls + 1
    /\ UNCHANGED <<fromNull, allDefault, maxConf, maxData>>

\* One processing cycle of the booking graph: the state kept for the
\* conversation takes the inbound message and the graph runs to its end.
BookingCycle ==
    /\ calls < MaxCalls
    /\ \E user_message \in BookingMessages, in \in Backends :
        LET r == existing_user_booking_workflow(
                     [state EXCEPT !.user_message = user_message], in)
        IN  /\ state' = r.state
            /\ last' = [op |-> "booking_cycle",
                        pre |-> state,
                        path |-> r.path,
                        unmapped |-> r.unmapped,
                        create_booking_state |->
                            state_entering("create_booking", "entry_router",
                                [state EXCEPT !.user_message = user_message], in),
                        fetch_error |->
                            LET s == state_entering("fetch_vehicles", "entry_router",
                                         [state EXCEPT !.user_message = user_message], in)
                            IN  s # None /\ fetch_reports_error(s, in.vehicles)]
    /\ calls' = calls + 1
    /\ UNCHANGED <<fromNull, allDefault, maxConf, maxData>>

\* One processing cycle of the composed booking workflow.
BookingWorkflowCycle ==
    /\ calls < MaxCalls
    /\ \E user_message \in BookingMessages, in \in GroupInputs :
        LET r == booking_workflow([state EXCEPT !.user_message = user_message], in)
        IN  /\ state' = r.state
            /\ last' = [op |-> "booking_workflow",
                        pre |-> state,
                        groups |-> r.groups,
                        vehicle_nodes |->
                            vehicle_group_nodes(
                                group_result("profile_check",
                                    [state EXCEPT !.user_message = user_message], in))]
    /\ calls' = calls + 1
    /\ UNCHANGED <<fromNull, allDefault, maxConf, maxData>>

\* The task of one inbound message of the conversation starts: ainvoke
\* loads the state the checkpointer holds for the conversation and the
\* resume router decides on it; the task then suspends in its first await
\* of a collaborator.  Nothing makes it wait for the tasks in flight.
BeginCycle ==
    /\ calls < MaxCalls
    /\ \E user_message \in BookingMessages :
        LET loaded == [state.persisted EXCEPT !.user_message = user_message]
            task == [user_message |-> user_message,
                     loaded |-> state.persisted,
                     decision |-> check_resume_point(loaded)]
        IN  /\ state' = [state EXCEPT !.in_flight = Append(@, task)]
            /\ last' = [op |-> "begin_cycle", pre |-> state, task |-> task]
    /\ calls' = calls + 1
    /\ UNCHANGED <<fromNull, allDefault, maxConf, maxData>>

\* A task in flight runs to the end of its cycle and the state it ends with
\* is saved for the conversation.
EndCycle ==
    /\ calls < MaxCalls
    /\ \E i \in 1 .. Len(state.in_flight), in \in Backends :
        LET task == state.in_flight[i]
            r == existing_user_booking_workflow(
                     [task.loaded EXCEPT !.user_message = task.user_message], in)
        IN  /\ state' = [persisted |-> r.state,
                         in_flight |-> SubSeq(state.in_flight, 1, i - 1)
                                       \o SubSeq(state.in_flight, i + 1,
                                                 Len(state.in_flight))]
            /\ last' = [op |-> "end_cycle", pre |-> state, task |-> task,
                        arrival |-> i]
    /\ calls' = calls + 1
    /\ UNCHANGED <<fromNull, allDefault, maxConf, maxData>>

\* One call of get_nested_field.
GetNestedField ==
    /\ calls < MaxCalls
    /\ \E field_path \in FieldPaths :
        /\ state' = state
        /\ last' = [op |-> "get_nested_field", pre |-> state,
                    field_path |-> field_path,
                    result |-> get_nested_field(state, field_path)]
    /\ calls' = calls + 1
    /\ UNCHANGED <<fromNull, allDefault, maxConf, maxData>>

\* One call of set_nested_field.
SetNestedField ==
    /\ calls < MaxCalls
    /\ \E field_path \in FieldPaths, value \in FieldValues :
        /\ state' = set_nested_field(state, field_path, value)
        /\ last' = [op |-> "set_nested_field", pre |-> state,
                    field_path |-> field_path, value |-> value,
                    raised |-> set_nested_field_raises(state, field_path)]
    /\ calls' = calls + 1
    /\ UNCHANGED <<fromNull, allDefault, maxConf, maxData>>

\* One call of check_customer_exists; looked_up is whether the state comes
\* from lookup_customer_node run on a state without customer.
CheckCustomerExists ==
    /\ calls < MaxCalls
    /\ state' = routed_state("check_customer_exists", state)
    /\ last' = [op |-> "check_customer_exists",
                pre |-> state,
                decision |-> check_customer_exists(state),
                looked_up |-> last.op = "lookup_customer" /\ last.pre = None]
    /\ calls' = calls + 1
    /\ UNCHANGED <<fromNull, allDefault, maxConf, maxData>>

\* One processing cycle of one of two conversations of the process.
ConversationCycle ==
    /\ calls < MaxCalls
    /\ \E conversation_id \in ConversationIds, user_message \in BookingMessages,
          in \in Backends :
        LET client == client_after_cycle(state._yawlit_client, conversation_id)
            r == existing_user_booking_workflow(
                     [state.conversations[conversation_id] EXCEPT
                         !.user_message = user_message],
                     backend_answers(get_auth_headers(client.config), in))
        IN  /\ state' = [_yawlit_client |-> client,
                         conversations |->
                             [state.conversations EXCEPT ![conversation_id] = r.state]]
            /\ last' = [op |-> "conversation_cycle", pre |-> state,
                        conversation_id |-> conversation_id,
                        user_message |-> user_message, in |-> in]
    /\ calls' = calls + 1
    /\ UNCHANGED <<fromNull, allDefault, maxConf, maxData>>

\* One aput of the checkpoint a cycle of some conversation ends with.
Aput ==
    /\ calls < MaxCalls
    /\ \E thread_id \in ConversationIds, channel_values \in ChannelValues,
          sqlite_ok \in BOOLEAN :
        LET tuple == [thread_id |-> thread_id, id |-> calls + 1,
                      channel_values |-> channel_values]
            r == aput(state, tuple, sqlite_ok)
        IN  /\ state' = IF r.raised THEN r.self
                        ELSE [r.self EXCEPT !.acknowledged[thread_id] = tuple]
            /\ last' = [op |-> "aput", pre |-> state, tuple |-> tuple,
                        sqlite_ok |-> sqlite_ok, result |-> r.result,
                        raised |-> r.raised, tiers |-> r.tiers]
    /\ calls' = calls + 1
    /\ UNCHANGED <<fromNull, allDefault, maxConf, maxData>>

\* One aget_tuple for some conversation.
AgetTuple ==
    /\ calls < MaxCalls
    /\ \E thread_id \in ConversationIds, sqlite_ok \in BOOLEAN :
        LET r == aget_tuple(state, thread_id, sqlite_ok)
        IN  /\ state' = r.self
            /\ last' = [op |-> "aget_tuple", pre |-> state, thread_id |-> thread_id,
                        sqlite_ok |-> sqlite_ok, result |-> r.result,
                        tiers |-> r.tiers]
    /\ calls' = calls + 1
    /\ UNCHANGED <<fromNull, allDefault, maxConf, maxData>>

\* One alist, run to its end.
Alist ==
    /\ calls < MaxCalls
    /\ \E config \in ConversationIds \cup {NoConfig}, limit \in ListLimits,
          sqlite_ok \in BOOLEAN :
        /\ state' = state
        /\ last' = [op |-> "alist", pre |-> state, config |-> config,
                    limit |-> limit, sqlite_ok |-> sqlite_ok,
                    result |-> alist(state, config, limit, sqlite_ok)]
    /\ calls' = calls + 1
    /\ UNCHANGED <<fromNull, allDefault, maxConf, maxData>>

\* A restart of the process: the checkpointer is built again on a new
\* MemorySaver and the same SQLite database.
Restart ==
    /\ calls < MaxCalls
    /\ state' = [state EXCEPT !.memory = EmptySaver]
    /\ last' = [op |-> "restart", pre |-> state]
    /\ calls' = calls + 1
    /\ UNCHANGED <<fromNull, allDefault, maxConf, maxData>>

\* One call of validate.node on customer with any model verdict and policy.
ValidateNode ==
    /\ calls < MaxCalls
    /\ \E model \in ValidationModels, on_failure \in FailurePolicies :
        LET r == validate_node(state, model, <<"customer">>, on_failure)
        IN  /\ state' = r.state
            /\ last' = [op |-> "validate",
                        pre |-> get_nested_field(state, <<"customer">>),
                        pre_errors |-> state.errors,
                        data_path |-> <<"customer">>,
                        model |-> model,
                        on_failure |-> on_failure,
                        raised |-> r.raised]
    /\ calls' = calls + 1
    /\ UNCHANGED <<fromNull, allDefault, maxConf, maxData>>

\* A further inbound message of a conversation reaches the chat endpoint,
\* which builds the state of its processing cycle.
ProcessChat ==
    /\ calls < MaxCalls
    /\ \E conversation_id \in ConversationIds, user_message \in Messages :
        state' = process_chat_state(conversation_id, user_message)
    /\ last' = [op |-> "process_chat", pre_errors |-> state.errors,
                pre_conversation_id |-> state.conversation_id]
    /\ calls' = calls + 1
    /\ UNCHANGED <<fromNull, allDefault, maxConf, maxData>>

\* One run of the simple chat workflow on the state of the cycle.
SimpleChatWorkflow ==
    /\ calls < MaxCalls
    /\ \E dspy \in DspyOutcomes :
        /\ state' = simple_chat_workflow(state, dspy)
        /\ last' = [op |-> "simple_chat", pre |-> state.customer, dspy |-> dspy,
                    pre_checkpoints |-> state.checkpoints,
                    tiers |-> extract_name_tiers(state, dspy)]
    /\ calls' = calls + 1
    /\ UNCHANGED <<fromNull, allDefault, maxConf, maxData>>

CheckpointNode ==
    /\ calls < MaxCalls
    /\ \E checkpoint_name \in CheckpointNames :
        state' = checkpoint_node(state, checkpoint_name, "milestone")
    /\ last' = [op |-> "checkpoint", pre_checkpoints |-> state.checkpoints]
    /\ calls' = calls + 1
    /\ UNCHANGED <<fromNull, allDefault, maxConf, maxData>>

InitMerge ==
    /\ \E t \in InitTargets :
        /\ state = [InitialState EXCEPT !.customer = t]
        /\ fromNull = ~Truthy(t)
    /\ last = NoOp
    /\ calls = 0
    /\ allDefault = TRUE
    /\ maxConf = -1
    /\ maxData = EmptyDict

NextMerge == MergeNode

SpecMerge == InitMerge /\ [][NextMerge]_vars

InitFrappe ==
    /\ state = InitialState
    /\ last = NoOp
    /\ calls = 0
    /\ fromNull = TRUE
    /\ allDefault = TRUE
    /\ maxConf = -1
    /\ maxData = EmptyDict

NextFrappe == CallFrappeNode

SpecFrappe == InitFrappe /\ [][NextFrappe]_vars

\* Executions of the nodes that call the booking backend.
InitCollab ==
    /\ \E start \in CollabStarts :
        state = [InitialState EXCEPT !.selected_service = start.selected_service,
                                     !.preferred_date = start.preferred_date]
    /\ last = NoOp
    /\ calls = 0
    /\ fromNull = TRUE
    /\ allDefault = TRUE
    /\ maxConf = -1
    /\ maxData = EmptyDict

NextCollab ==
    \/ FetchSlots
    \/ CallFrappeNode

SpecCollab == InitCollab /\ [][NextCollab]_vars

\* Router calls on a conversation state.
InitRouter ==
    /\ state \in RouterStates
    /\ last = NoOp
    /\ calls = 0
    /\ fromNull = TRUE
    /\ allDefault = TRUE
    /\ maxConf = -1
    /\ maxData = EmptyDict

NextRouter == Route

SpecRouter == InitRouter /\ [][NextRouter]_vars

\* The processing cycles of one conversation on the booking graph.
InitBooking ==
    /\ state = InitialState
    /\ last = NoOp
    /\ calls = 0
    /\ fromNull = TRUE
    /\ allDefault = TRUE
    /\ maxConf = -1
    /\ maxData = EmptyDict

NextBooking == BookingCycle

SpecBooking == InitBooking /\ [][NextBooking]_vars

\* The processing cycles of one conversation on the composed workflow.
InitGroups ==
    /\ state \in GroupStarts
    /\ last = NoOp
    /\ calls = 0
    /\ fromNull = TRUE
    /\ allDefault = TRUE
    /\ maxConf = -1
    /\ maxData = EmptyDict

NextGroups == BookingWorkflowCycle

SpecGroups == InitGroups /\ [][NextGroups]_vars

\* The processing cycles of a conversation from any stage of a booking.
InitResume ==
    /\ state \in BookingStarts
    /\ last = NoOp
    /\ calls = 0
    /\ fromNull = TRUE
    /\ allDefault = TRUE
    /\ maxConf = -1
    /\ maxData = EmptyDict

NextResume == BookingCycle

SpecResume == InitResume /\ [][NextResume]_vars

\* Milestones and the nodes that record errors, on one conversation state.
InitLog ==
    /\ state = InitialState
    /\ last = NoOp
    /\ calls = 0
    /\ fromNull = TRUE
    /\ allDefault = TRUE
    /\ maxConf = -1
    /\ maxData = EmptyDict

NextLog ==
    \/ CheckpointNode
    \/ ExtractNameNode
    \/ LookupCustomerNode

SpecLog == InitLog /\ [][NextLog]_vars

\* One call of _request on the client: outcomes is what each attempt the
\* call may make would meet.
Request ==
    /\ calls < MaxCalls
    /\ \E outcomes \in [1 .. DefaultMaxRetries -> AttemptOutcomes] :
        LET r == request(state.max_retries, outcomes)
        IN  last' = [op |-> "request",
                     max_retries |-> state.max_retries,
                     outcomes |-> SubSeq(outcomes, 1, r.attempts),
                     attempts |-> r.attempts,
                     raised |-> r.raised,
                     result |-> r.result]
    /\ state' = state
    /\ calls' = calls + 1
    /\ UNCHANGED <<fromNull, allDefault, maxConf, maxData>>

\* The calls of one HTTP client.
InitHttp ==
    /\ state \in HttpClients
    /\ last = NoOp
    /\ calls = 0
    /\ fromNull = TRUE
    /\ allDefault = TRUE
    /\ maxConf = -1
    /\ maxData = EmptyDict

NextHttp == Request

SpecHttp == InitHttp /\ [][NextHttp]_vars

\* The nested-field functions on their own.
InitFields ==
    /\ state \in FieldStates
    /\ last = NoOp
    /\ calls = 0
    /\ fromNull = TRUE
    /\ allDefault = TRUE
    /\ maxConf = -1
    /\ maxData = EmptyDict

NextFields == GetNestedField \/ SetNestedField

SpecFields == InitFields /\ [][NextFields]_vars

\* The customer lookup and the routing on it.
InitLookup ==
    /\ state \in LookupStarts
    /\ last = NoOp
    /\ calls = 0
    /\ fromNull = TRUE
    /\ allDefault = TRUE
    /\ maxConf = -1
    /\ maxData = EmptyDict

NextLookup == LookupCustomerNode \/ CheckCustomerExists

SpecLookup == InitLookup /\ [][NextLookup]_vars

\* Two conversations served by one process.
InitConversations ==
    /\ state = [_yawlit_client |-> None,
                conversations |->
                    [conversation_id \in ConversationIds |->
                        [InitialState EXCEPT !.conversation_id = conversation_id]]]
    /\ last = NoOp
    /\ calls = 0
    /\ fromNull = TRUE
    /\ allDefault = TRUE
    /\ maxConf = -1
    /\ maxData = EmptyDict

NextConversations == ConversationCycle

SpecConversations == InitConversations /\ [][NextConversations]_vars

\* The tasks of the inbound messages of one conversation, in one process.
InitTasks ==
    /\ state = [persisted |-> InitialState, in_flight |-> << >>]
    /\ last = NoOp
    /\ calls = 0
    /\ fromNull = TRUE
    /\ allDefault = TRUE
    /\ maxConf = -1
    /\ maxData = EmptyDict

NextTasks == BeginCycle \/ EndCycle

SpecTasks == InitTasks /\ [][NextTasks]_vars

\* The checkpointer of one process after another, used by two
\* conversations.
InitCheckpointer ==
    /\ state \in CheckpointerStarts
    /\ last = NoOp
    /\ calls = 0
    /\ fromNull = TRUE
    /\ allDefault = TRUE
    /\ maxConf = -1
    /\ maxData = EmptyDict

NextCheckpointer == Aput \/ AgetTuple \/ Alist \/ Restart

SpecCheckpointer == InitCheckpointer /\ [][NextCheckpointer]_vars

InitValidate ==
    /\ \E t \in ValidateTargets : state = [InitialState EXCEPT !.customer = t]
    /\ last = NoOp
    /\ calls = 0
    /\ fromNull = TRUE
    /\ allDefault = TRUE
    /\ maxConf = -1
    /\ maxData = EmptyDict

NextValidate == ValidateNode

SpecValidate == InitValidate /\ [][NextValidate]_vars

\* The processing cycles of one server: each inbound message builds a state
\* and the workflow and milestone nodes run on it.
InitChat ==
    /\ \E conversation_id \in ConversationIds, user_message \in Messages :
        state = process_chat_state(conversation_id, user_message)
    /\ last = NoOp
    /\ calls = 0
    /\ fromNull = TRUE
    /\ allDefault = TRUE
    /\ maxConf = -1
    /\ maxData = EmptyDict

NextChat ==
    \/ ProcessChat
    \/ SimpleChatWorkflow
    \/ CheckpointNode

SpecChat == InitChat /\ [][NextChat]_vars

\* Node executions on one conversation state, in any order.
Init ==
    /\ \E m \in Messages : state = [InitialState EXCEPT !.user_message = m]
    /\ last = NoOp
    /\ calls = 0
    /\ fromNull = TRUE
    /\ allDefault = TRUE
    /\ maxConf = -1
    /\ maxData = EmptyDict

Next ==
    \/ MergeDefault
    \/ ExtractNameNode
    \/ LookupCustomerNode
    \/ FetchVehiclesNode
    \/ FetchSlotsNode
    \/ ExtractSlotSelectionNode

Spec == Init /\ [][Next]_vars

----------------------------------------------------------------------------
(* Properties of merge.node, checked under SpecMerge *)

\* The last node execution was a merge.node call that ran the default
\* strategy on a target that already held data (no merge_fn, or a merge_fn
\* that raised and fell back to the default strategy).
LastDefaultMergeOnData ==
    /\ last.op = "merge"
    /\ last.merge_fn = "None" \/ merge_fn_raises(last.merge_fn)
    /\ Truthy(last.pre)

LastCustomMergeOnData ==
    /\ last.op = "merge"
    /\ last.merge_fn # "None" /\ ~merge_fn_raises(last.merge_fn)
    /\ Truthy(last.pre)

LastExistingConfidence == DictGet(last.pre, confidence_field, 0)

\* A dict without its confidence and turn stamp.
Payload(d) == [k \in (DOMAIN d) \ {confidence_field, "turn_extracted"} |-> d[k]]

\* C1: a default-strategy merge whose new_confidence is lower than or equal
\* to the existing confidence (a tie included) leaves the data stored at the
\* target path exactly as it was.
C1_NoDowngrade ==
    (LastDefaultMergeOnData /\ last.new_confidence <= LastExistingConfidence)
        => state.customer = last.pre

\* A tie with a different name was attempted and the existing name stayed.
C1_Witness ==
    /\ LastDefaultMergeOnData
    /\ confidence_field \in DOMAIN last.pre
    /\ last.new_confidence = LastExistingConfidence
    /\ last.new_data.first_name # last.pre.first_name
    /\ state.customer = last.pre

\* C2: starting from a null target, the confidence stored after the N-th
\* merge equals the maximum of the N new_confidence values attempted.
C2_StoredConfidenceIsMax ==
    (fromNull /\ calls >= 1)
        => /\ confidence_field \in DOMAIN state.customer
           /\ state.customer[confidence_field] = maxConf

\* After at least two calls the last one attempted less than the maximum.
C2_Witness ==
    /\ fromNull
    /\ calls >= 2
    /\ last.new_confidence < maxConf
    /\ state.customer[confidence_field] = maxConf

\* C3 as stated: after any sequence of default-strategy merges from a null
\* target the stored payload equals the new_data of the call that produced
\* the maximum confidence.
C3_PayloadOfMaxCall ==
    (fromNull /\ allDefault /\ calls >= 1)
        => Payload(state.customer) = Payload(maxData)

\* C3 amended: the stored payload agrees with the new_data of the call that
\* produced the maximum confidence on every key that new_data carries (keys
\* it does not carry keep what earlier accepted calls stored).
C3_PayloadAgreesOnKeysOfMaxCall ==
    (fromNull /\ allDefault /\ calls >= 1)
        => \A k \in DOMAIN Payload(maxData) :
              /\ k \in DOMAIN state.customer
              /\ state.customer[k] = maxData[k]

\* The maximum came from a call without last_name, and an earlier call's
\* last_name is still stored.
C3_Witness ==
    /\ fromNull /\ allDefault /\ calls >= 2
    /\ "last_name" \notin DOMAIN maxData
    /\ "last_name" \in DOMAIN state.customer
    /\ state.customer.first_name = maxData.first_name

\* C4 as stated: a replacing default-strategy merge stores exactly the
\* existing mapping overlaid with new_data, with confidence new_confidence.
C4_ExactOverlay ==
    (LastDefaultMergeOnData /\ last.new_confidence > LastExistingConfidence)
        => /\ DOMAIN state.customer =
                  (DOMAIN last.pre) \cup (DOMAIN last.new_data) \cup {confidence_field}
           /\ \A k \in (DOMAIN last.pre) \ ((DOMAIN last.new_data) \cup {confidence_field}) :
                  state.customer[k] = last.pre[k]
           /\ \A k \in (DOMAIN last.new_data) \ {confidence_field} :
                  state.customer[k] = last.new_data[k]
           /\ state.customer[confidence_field] = last.new_confidence

\* The keys whose value the call sets itself, whatever the two mappings hold.
StampedKeys(turn) ==
    {confidence_field} \cup (IF turn # NoTurn THEN {"turn_extracted"} ELSE {})

\* C4 amended: as stated, except that a call which passes a turn also sets
\* turn_extracted to that turn.
C4_OverlayWithTurnStamp ==
    (LastDefaultMergeOnData /\ last.new_confidence > LastExistingConfidence)
        => /\ DOMAIN state.customer =
                  (DOMAIN last.pre) \cup (DOMAIN last.new_data) \cup StampedKeys(last.turn)
           /\ \A k \in (DOMAIN last.pre) \ ((DOMAIN last.new_data) \cup StampedKeys(last.turn)) :
                  state.customer[k] = last.pre[k]
           /\ \A k \in (DOMAIN last.new_data) \ StampedKeys(last.turn) :
                  state.customer[k] = last.new_data[k]
           /\ state.customer[confidence_field] = last.new_confidence
           /\ last.turn # NoTurn => state.customer.turn_extracted = last.turn

\* A replacing merge without last_name kept the existing last_name.
C4_Witness ==
    /\ LastDefaultMergeOnData
    /\ last.new_confidence > LastExistingConfidence
    /\ "last_name" \in DOMAIN last.pre
    /\ "last_name" \notin DOMAIN last.new_data
    /\ state.customer.last_name = last.pre.last_name
    /\ state.customer.first_name # last.pre.first_name

LastCustomResult ==
    merge_fn_result(last.merge_fn, last.pre, last.new_data,
                    LastExistingConfidence, last.new_confidence)

\* C5 as stated: with a custom merge function on existing data the stored
\* value is the function's result with confidence forced to the maximum of
\* the existing and the new confidence.
C5_CustomResultForcedConfidence ==
    LastCustomMergeOnData
        => /\ DOMAIN state.customer = (DOMAIN LastCustomResult) \cup {confidence_field}
           /\ \A k \in (DOMAIN LastCustomResult) \ {confidence_field} :
                  state.customer[k] = LastCustomResult[k]
           /\ state.customer[confidence_field] =
                  Max(LastExistingConfidence, last.new_confidence)

\* C5 amended: as stated when the custom function returns, except that a
\* call which passes a turn also sets turn_extracted to that turn.
C5_CustomResultForcedConfidenceWithTurnStamp ==
    LastCustomMergeOnData
        => /\ DOMAIN state.customer =
                  (DOMAIN LastCustomResult) \cup StampedKeys(last.turn)
           /\ \A k \in (DOMAIN LastCustomResult) \ StampedKeys(last.turn) :
                  state.customer[k] = LastCustomResult[k]
           /\ state.customer[confidence_field] =
                  Max(LastExistingConfidence, last.new_confidence)
           /\ last.turn # NoTurn => state.customer.turn_extracted = last.turn

\* The custom function returned confidence 0 and a lower new_confidence was
\* attempted: the stored confidence is the existing one.
C5_Witness ==
    /\ LastCustomMergeOnData
    /\ last.merge_fn = "zero_confidence"
    /\ last.new_confidence < LastExistingConfidence
    /\ state.customer[confidence_field] = LastExistingConfidence
    /\ state.customer.first_name = last.new_data.first_name

----------------------------------------------------------------------------
(* Properties of call_frappe.node, checked under SpecFrappe *)

\* The last node execution was a call_frappe.node call whose collaborator
\* call was made and failed.
FailedCollaboratorCall ==
    /\ last.op = "call_frappe"
    /\ last.state_extractor # "raises"
    /\ ~last.operation.ok

AppendedCode == state.errors[Len(state.errors)]

ExactlyOneCodeAppended ==
    /\ Len(state.errors) = Len(last.pre_errors) + 1
    /\ SubSeq(state.errors, 1, Len(last.pre_errors)) = last.pre_errors

\* C8: call_frappe.node returns a state for every outcome of the parameter
\* extractor and of the collaborator call when its policy is log or clear;
\* an exception leaves the node only when the policy is raise.
C8_RaisesOnlyUnderRaisePolicy ==
    last.op = "call_frappe" => (last.raised => last.on_failure = "raise")

\* Under policy clear the collaborator raised an unknown exception and the
\* node returned, with the failure recorded in errors.
C8_Witness ==
    /\ FailedCollaboratorCall
    /\ last.on_failure = "clear"
    /\ last.operation.exception = "Exception"
    /\ ~last.raised
    /\ ExactlyOneCodeAppended

FourCategories == {"NotFoundError", "ValidationError", "ServerError", "NetworkError"}

CodeClass(e) ==
    IF e = "NotFoundError" THEN "not_found"
    ELSE IF IsFrappeAPIError(e) THEN "api_error"
    ELSE "unexpected"

C10_ClearNullsResultPath ==
    (FailedCollaboratorCall /\ last.on_failure = "clear")
        => get_nested_field(state, last.result_path) = None

----------------------------------------------------------------------------
(* Properties of the nodes that write the domain fields, checked under Spec *)

ConfidenceOf(d) == IF IsDict(d) THEN DictGet(d, confidence_field, 0) ELSE 0

\* C6: once customer holds data with confidence c, no node execution
\* overwrites that data with data whose confidence is lower than or equal
\* to c.
C6_NoOverwriteByLowerOrEqualConfidence ==
    [][(/\ Truthy(state.customer)
        /\ confidence_field \in DOMAIN state.customer
        /\ Payload(state'.customer) # Payload(state.customer))
            => ConfidenceOf(state'.customer) > state.customer[confidence_field]]_vars

DomainFields == {"customer", "vehicle", "appointment"}

\* C7: every domain field that is non-null contains a confidence entry.
C7_DomainFieldsCarryConfidence ==
    \A f \in DomainFields :
        state[f] # None => confidence_field \in DOMAIN state[f]

----------------------------------------------------------------------------
(* Properties of validate.node, checked under SpecValidate *)

\* The last node execution was a validate.node call whose data were rejected
\* by the model (a ValidationError) under the failure policy clear.
ClearedAfterValidationError ==
    /\ last.op = "validate"
    /\ last.pre # None
    /\ ~last.model.ok
    /\ last.model.exception = "ValidationError"
    /\ last.on_failure = "clear"

\* C11: when validate.node runs with failure policy clear and the data at
\* data_path fail validation, the value at data_path is null when the node
\* returns.
C11_ClearNullsDataPath ==
    ClearedAfterValidationError =>
        get_nested_field(state, last.data_path) = None

----------------------------------------------------------------------------
(* Properties of the processing cycles, checked under SpecChat *)

IsPrefix(a, b) == Len(a) <= Len(b) /\ SubSeq(b, 1, Len(a)) = a

----------------------------------------------------------------------------
(* Properties of the nodes that call the booking backend, checked under    *)
(* SpecCollab                                                               *)

CallsCollaborator == last.op \in {"call_frappe", "slot_group.fetch_slots"}

\* C13: every node of the workflow invokes at most one external
\* collaborator call per execution.
C13_AtMostOneCollaboratorCall ==
    CallsCollaborator => last.collaborator_calls <= 1

\* C13, amended: call_frappe.node awaits its operation exactly once (not at
\* all when state_extractor raised), and fetch_slots of the slot group
\* makes one call for each of the SlotDays days when a service is selected
\* (whether or not the calls fail) and none otherwise.
C13_OneCallPerOperationOrDay ==
    /\ last.op = "call_frappe" =>
           last.collaborator_calls = IF last.state_extractor = "raises" THEN 0 ELSE 1
    /\ last.op = "slot_group.fetch_slots" =>
           last.collaborator_calls =
               IF last.pre_selected_service = None THEN 0 ELSE SlotDays

C13_Witness ==
    /\ last.op = "slot_group.fetch_slots"
    /\ last.pre_selected_service # None
    /\ last.collaborator_calls = SlotDays
    /\ Len(state.slot_options) = 1

----------------------------------------------------------------------------
(* Properties of extract_name.node, checked under Spec *)

\* The last node execution was extract_name.node, its DSPy tier raised or
\* timed out and its regex tier returned a name.
SecondaryTierSucceeded ==
    /\ last.op = "extract_name"
    /\ ~last.dspy.ok
    /\ RegexNameExtractor_extract(state.user_message) # None

\* The last node execution was extract_name.node and no tier returned a name.
EveryTierFailed ==
    /\ last.op = "extract_name"
    /\ ~last.dspy.ok
    /\ RegexNameExtractor_extract(state.user_message) = None

Invocations(tier) == {i \in 1 .. Len(last.tiers) : last.tiers[i].tier = tier}

\* C14: in extract_name.node, when the primary (DSPy) tier raises or times
\* out and the secondary (regex) tier succeeds, the stored result has
\* extraction_method "regex" with that tier's default confidence 0.70, and
\* the primary tier was invoked exactly once.
C14_RegexResultAfterOneDspyCall ==
    SecondaryTierSucceeded =>
        /\ state.customer.extraction_method = "regex"
        /\ state.customer.confidence = RegexConfidence
        /\ Cardinality(Invocations("dspy")) = 1

C14_Witness ==
    /\ SecondaryTierSucceeded
    /\ state.customer.first_name = "Ravi"
    /\ state.customer.extraction_method = "regex"

\* C15: in one execution of a multi-tier extraction node the tiers are
\* invoked in their configured order, each at most once; a later tier is
\* invoked only if every earlier tier failed, and once a tier succeeds no
\* further tier is invoked.
C15_TiersInOrderUntilSuccess ==
    last.op = "extract_name" =>
        /\ Len(last.tiers) <= Len(TierOrder)
        /\ \A i \in 1 .. Len(last.tiers) :
               /\ last.tiers[i].tier = TierOrder[i]
               /\ \A j \in 1 .. i - 1 : ~last.tiers[j].ok
               /\ last.tiers[i].ok => i = Len(last.tiers)

\* Both cases happen: the first tier succeeds and nothing else runs, and
\* the second tier runs after the first failed.
C15_Witness ==
    /\ last.op = "extract_name"
    /\ last.tiers = <<[tier |-> "dspy", ok |-> FALSE], [tier |-> "regex", ok |-> TRUE]>>
    /\ state.customer.extraction_method = "regex"

\* C16: when every extraction tier fails, extract_name.node sets the
\* response to a direct clarification question, sets current_step to the
\* same extraction step ("extract_name"), and appends exactly one new code
\* to errors.
C16_AsksAgainWithOneCode ==
    EveryTierFailed =>
        /\ state.response = "I didn't catch your name. What's your name?"
        /\ state.current_step = "extract_name"
        /\ Len(state.errors) = Len(last.pre_errors) + 1
        /\ IsPrefix(last.pre_errors, state.errors)
        /\ state.errors[Len(state.errors)] = "name_extraction_failed"

C16_Witness ==
    /\ EveryTierFailed
    /\ last.pre_errors # << >>
    /\ state.current_step = "extract_name"
    /\ Len(state.errors) = Len(last.pre_errors) + 1

\* C17: when every extraction tier fails, the state returned by the
\* extraction node has should_proceed = false.
C17_HaltsWhenEveryTierFailed ==
    EveryTierFailed => state.should_proceed = FALSE

----------------------------------------------------------------------------
(* Properties of the simple chat workflow, checked under SpecChat *)

\* The last step was a run of the workflow in which name extraction
\* succeeded through the regex tier into a customer that was null.
SecondaryTierCycleIntoNullCustomer ==
    /\ last.op = "simple_chat"
    /\ last.pre = None
    /\ ~last.dspy.ok
    /\ RegexNameExtractor_extract(state.user_message) # None

\* C18: after a processing cycle in which name extraction succeeds through
\* the secondary tier into a previously null customer, the final state has
\* current_step advanced to the next collection step and a new entry named
\* customer_confirmed appended to checkpoints.
C18_AdvancesAndCheckpoints ==
    SecondaryTierCycleIntoNullCustomer =>
        /\ state.current_step = "extract_phone"
        /\ Len(state.checkpoints) = Len(last.pre_checkpoints) + 1
        /\ IsPrefix(last.pre_checkpoints, state.checkpoints)
        /\ state.checkpoints[Len(state.checkpoints)].name = "customer_confirmed"

\* C18, amended: after such a cycle current_step is advanced to
\* "extract_phone" and checkpoints is what it was: the workflow ends after
\* extract_name and records no milestone.
C18_AdvancesWithoutCheckpoint ==
    SecondaryTierCycleIntoNullCustomer =>
        /\ state.current_step = "extract_phone"
        /\ state.checkpoints = last.pre_checkpoints

C18_Witness ==
    /\ SecondaryTierCycleIntoNullCustomer
    /\ state.customer.first_name = "Shukriya"
    /\ state.customer.extraction_method = "regex"
    /\ state.current_step = "extract_phone"

----------------------------------------------------------------------------
(* Properties of the router functions, checked under SpecRouter *)

VehiclePending(s) == s.vehicle_options # << >> /\ ~s.vehicle_selected
ServicePending(s) == s.filtered_services # << >> /\ ~s.service_selected
SlotPending(s) == s.available_slots # << >> /\ ~s.slot_selected
ConfirmationPending(s) ==
    s.selected_service # None /\ s.slot_selected /\ s.confirmed = "None"

\* C19: check_resume_point resolves simultaneous matches by the fixed
\* precedence vehicle selection, service selection, slot selection,
\* confirmation, fresh start: it returns the first stage in that order
\* whose condition holds, and fresh_start, which maps to customer lookup,
\* when none holds.
C19_ResumePrecedence ==
    (last.op = "route" /\ last.router = "check_resume_point") =>
        /\ VehiclePending(last.pre) => last.decision = "awaiting_vehicle"
        /\ (~VehiclePending(last.pre) /\ ServicePending(last.pre))
               => last.decision = "awaiting_service"
        /\ (~VehiclePending(last.pre) /\ ~ServicePending(last.pre)
               /\ SlotPending(last.pre))
               => last.decision = "awaiting_slot"
        /\ (~VehiclePending(last.pre) /\ ~ServicePending(last.pre)
               /\ ~SlotPending(last.pre) /\ ConfirmationPending(last.pre))
               => last.decision = "awaiting_confirmation"
        /\ (~VehiclePending(last.pre) /\ ~ServicePending(last.pre)
               /\ ~SlotPending(last.pre) /\ ~ConfirmationPending(last.pre))
               => (last.decision = "fresh_start"
                   /\ resume_edges[last.decision] = "lookup_customer")

\* A state with both the vehicle and the service stage unresolved was
\* routed to vehicle selection.
C19_Witness ==
    /\ last.op = "route"
    /\ last.router = "check_resume_point"
    /\ VehiclePending(last.pre)
    /\ ServicePending(last.pre)
    /\ SlotPending(last.pre)
    /\ last.decision = "awaiting_vehicle"
    /\ resume_edges[last.decision] = "extract_vehicle_selection"

----------------------------------------------------------------------------
(* Properties of the booking graph, checked under SpecBooking *)

\* C21: in the existing-user booking graph, for every node with
\* conditional edges and every state reachable at that node over any
\* sequence of inbound messages, the outcome returned by the node's router
\* function has a declared target in that node's edge mapping.
C21_EveryOutcomeHasTarget ==
    last.op = "booking_cycle" => last.unmapped = ""

\* The nodes whose edge leads to END while the booking still needs an
\* answer of the user: options, catalog, slots or confirmation were sent, or
\* a selection was not understood.
AwaitNodes ==
    {"send_vehicle_options", "send_vehicle_error", "send_catalog",
     "send_service_error", "send_slots", "send_slot_error",
     "send_confirmation", "send_confirmation_unclear"}

EndedAtAwaitPoint ==
    /\ last.op = "booking_cycle"
    /\ last.unmapped = ""
    /\ last.path[Len(last.path)] \in AwaitNodes

\* C22: whenever a processing cycle ends at an await point (a node whose
\* edge leads to the end of the cycle while the booking flow still needs
\* user input), the final state of that cycle has should_proceed = false.
C22_AwaitPointHalts ==
    EndedAtAwaitPoint => state.should_proceed = FALSE

----------------------------------------------------------------------------
(* Properties of the composed booking workflow, checked under SpecGroups *)

\* C23: in the composed booking workflow, when a group pauses for user
\* input by setting should_proceed = false, the processing cycle ends
\* there: no later group is executed in the same cycle.
C23_PauseEndsTheCycle ==
    last.op = "booking_workflow" =>
        \A i \in 1 .. Len(last.groups) :
            last.groups[i].paused => i = Len(last.groups)

\* C35: in the vehicle group, after show_options presents the vehicle list
\* the cycle pauses for the next inbound message: process_selection is never
\* executed in the same processing cycle as show_options.
C35_OptionsThenPause ==
    last.op = "booking_workflow" =>
        \A i, j \in 1 .. Len(last.vehicle_nodes) :
            ~(last.vehicle_nodes[i] = "show_options"
              /\ last.vehicle_nodes[j] = "process_selection")

----------------------------------------------------------------------------
(* Properties of the dual checkpointer, checked under SpecCheckpointer *)

\* C24: aput writes the memory tier before it attempts the SQLite tier, and
\* a failure of the SQLite save does not fail the put: the put still returns
\* the memory tier's result and the checkpoint is in the memory tier.
C24_PutSurvivesDurableFailure ==
    last.op = "aput" =>
        /\ last.tiers = <<"memory.aput", "sqlite.aput">>
        /\ ~last.raised
        /\ last.result = saver_config(last.tuple)
        /\ last.tuple \in state.memory[last.tuple.thread_id]

C24_Witness ==
    /\ last.op = "aput"
    /\ ~last.sqlite_ok
    /\ last.tuple \notin state.sqlite[last.tuple.thread_id]
    /\ last.tuple \in state.memory[last.tuple.thread_id]

FastMiss == last.pre.memory[last.thread_id] = {}

ConsultedSqlite == \E i \in 1 .. Len(last.tiers) : last.tiers[i] = "sqlite.aget_tuple"

\* What C25 says of a get, a fast-tier miss answered from SQLite being one
\* for which durable holds.
GetReadsFastTierFirst(durable) ==
    /\ last.tiers[1] = "memory.aget_tuple"
    /\ ConsultedSqlite <=> FastMiss
    /\ ~FastMiss =>
          /\ last.result = newest(last.pre.memory[last.thread_id])
          /\ last.tiers = <<"memory.aget_tuple">>
    /\ FastMiss /\ last.pre.sqlite[last.thread_id] # {} /\ durable =>
          /\ last.result = newest(last.pre.sqlite[last.thread_id])
          /\ last.result \in state.memory[last.thread_id]

\* C25 (as stated): aget_tuple reads the memory tier first and consults
\* SQLite only on a miss; after a write and the loss of the memory tier a get
\* returns the last durable write and has put it back in the memory tier, so
\* that every later get is served by the memory tier alone.
C25_GetRehydrates ==
    last.op = "aget_tuple" => GetReadsFastTierFirst(TRUE)

\* C25 (amended): the same, for the gets whose SQLite load does not fail; a
\* get whose SQLite load fails returns nothing and leaves the memory tier
\* as it was.
C25_GetRehydratesUnlessLoadFails ==
    last.op = "aget_tuple" =>
        /\ GetReadsFastTierFirst(last.sqlite_ok)
        /\ FastMiss /\ ~last.sqlite_ok =>
              /\ last.result = None
              /\ state.memory = last.pre.memory

C25_Witness ==
    /\ last.op = "aget_tuple"
    /\ last.pre.acknowledged[last.thread_id] # None
    /\ FastMiss
    /\ last.sqlite_ok
    /\ last.result = newest(last.pre.sqlite[last.thread_id])
    /\ last.pre.sqlite[last.thread_id] # {}
    /\ state.memory[last.thread_id] = {last.result}

\* C26: no progress is lost across a crash: after any sequence of puts that
\* each returned successfully and a restart that emptied the memory tier, a
\* get returns the checkpoint of the most recent put of its conversation
\* (stated for the gets whose SQLite load does not fail).
C26_NoProgressLost ==
    /\ last.op = "aget_tuple"
    /\ FastMiss
    /\ last.sqlite_ok
    /\ last.pre.acknowledged[last.thread_id] # None
    => last.result = last.pre.acknowledged[last.thread_id]

Listed(tier) ==
    {last.result[i].checkpoint :
        i \in {j \in 1 .. Len(last.result) : last.result[j].tier = tier}}

\* C27: alist yields all matching memory-tier entries and, from SQLite,
\* exactly the entries of the conversations that have no memory-tier entry:
\* a conversation in both tiers is listed from the memory tier only, and a
\* conversation only in SQLite is still listed.  The two sets are stated
\* for the listings without a limit whose SQLite listing does not fail, the
\* rule that SQLite entries are of conversations absent from memory for all.
C27_ListMergesTiers ==
    last.op = "alist" =>
        /\ last.limit = NoLimit /\ last.sqlite_ok =>
              /\ Listed("memory") = matching(last.pre.memory, last.config)
              /\ Listed("sqlite") =
                     {checkpoint \in matching(last.pre.sqlite, last.config) :
                         last.pre.memory[checkpoint.thread_id] = {}}
        /\ \A checkpoint \in Listed("sqlite") :
              last.pre.memory[checkpoint.thread_id] = {}

----------------------------------------------------------------------------
(* Properties of the tasks of one conversation, checked under SpecTasks *)

\* C28: the messages of one conversation are processed strictly in arrival
\* order: two cycles of the same conversation_id never interleave, and the
\* resume decision of each cycle reads the state persisted by the completed
\* previous cycle.
C28_CyclesOfAConversationAreSerial ==
    /\ Len(state.in_flight) <= 1
    /\ last.op = "end_cycle" =>
          /\ last.arrival = 1
          /\ last.task.loaded = last.pre.persisted

----------------------------------------------------------------------------
(* Properties of two conversations in one process, checked under           *)
(* SpecConversations                                                        *)

\* The state the cycle would have ended with in a process that had served
\* no other cycle before it, its client new.
AloneInTheProcess ==
    existing_user_booking_workflow(
        [last.pre.conversations[last.conversation_id] EXCEPT
            !.user_message = last.user_message],
        backend_answers(get_auth_headers(YawlitClient.config), last.in)).state

----------------------------------------------------------------------------
(* Properties of the routing on the customer lookup, checked under         *)
(* SpecLookup                                                               *)

LookupResponse == GetOrEmpty(last.pre, "customer_lookup_response")

ReportsCustomer ==
    DictGet(LookupResponse, "exists", FALSE) /\ "data" \in DOMAIN LookupResponse

ReportsNoCustomer ==
    "exists" \in DOMAIN LookupResponse /\ ~LookupResponse.exists

HoldsReportedCustomer(s) ==
    /\ Truthy(s.customer)
    /\ s.customer.first_name = LookupResponse.data.first_name
    /\ s.customer.last_name = LookupResponse.data.last_name
    /\ s.customer.customer_uuid = LookupResponse.data.customer_uuid

----------------------------------------------------------------------------
(* Properties of get_nested_field and set_nested_field, checked under      *)
(* SpecFields                                                               *)

\* The value at the first i parts of the path of the last call.
Intermediate(i) == get_nested_field(last.pre, SubSeq(last.field_path, 1, i))

Intermediates == 1 .. Len(last.field_path) - 1

\* C31: get_nested_field is total: when an intermediate segment of the
\* path is missing, null or not a mapping it returns null instead of
\* failing, and it never modifies the state.
C31_GetIsTotal ==
    last.op = "get_nested_field" =>
        /\ state = last.pre
        /\ (\E i \in Intermediates : ~is_dict(Intermediate(i))) => last.result = None

C31_Witness ==
    /\ last.op = "get_nested_field"
    /\ \E i \in Intermediates : is_scalar(Intermediate(i))
    /\ last.result = None

Unrelated(p, q) ==
    \E i \in 1 .. Len(p) : i <= Len(q) /\ p[i] # q[i]

\* What C32 says of a set: the path then reads as the value set, and the
\* paths under other keys read as before.
SetThenGet ==
    /\ get_nested_field(state, last.field_path) = last.value
    /\ \A q \in FieldPaths :
          Unrelated(last.field_path, q) =>
              get_nested_field(state, q) = get_nested_field(last.pre, q)

\* C32 (as stated): set_nested_field materializes every missing or null
\* intermediate mapping of the path, so that for every state and path a
\* set(path, v) followed by get(path) returns v, and values stored under
\* other keys are unchanged.
C32_SetThenGetReturnsValue ==
    last.op = "set_nested_field" => SetThenGet

\* C32 (amended): the same for the paths whose intermediate segments are
\* mappings, null or missing; when an intermediate segment holds another
\* value the set fails and the state is as it was.
C32_SetThenGetUnlessScalarOnPath ==
    last.op = "set_nested_field" =>
        IF \E i \in Intermediates : is_scalar(Intermediate(i))
        THEN state = last.pre
        ELSE SetThenGet

C32_Witness ==
    /\ last.op = "set_nested_field"
    /\ Len(last.field_path) = 3
    /\ Intermediate(1) # None
    /\ Intermediate(2) = None
    /\ is_dict(get_nested_field(state, SubSeq(last.field_path, 1, 2)))
    /\ get_nested_field(state, last.field_path) = last.value
    /\ get_nested_field(state, <<"customer", "first_name">>) = Str("Sneha")

----------------------------------------------------------------------------
(* Properties of the milestone log, checked under SpecLog *)

\* C33: the checkpoints log is append-only: each checkpoint.node call
\* appends exactly one entry, and an entry already in the log, with the
\* errors and the other fields it recorded, is never changed by a later
\* node execution.
C33_LogIsAppendOnly ==
    [][/\ \A i \in 1 .. Len(state.checkpoints) :
             /\ i <= Len(state'.checkpoints)
             /\ checkpoint_entry(state', state'.checkpoints[i])
                    = checkpoint_entry(state, state.checkpoints[i])
       /\ last'.op = "checkpoint" =>
             Len(state'.checkpoints) = Len(state.checkpoints) + 1]_vars

----------------------------------------------------------------------------
(* Properties of the booking graph over a whole booking, checked under     *)
(* SpecResume                                                               *)

\* C34: create_booking is executed only in a state where confirmed is
\* true, service_selected and slot_selected are true, and
\* customer.customer_uuid, vehicle, selected_service and appointment are all
\* non-null; no sequence of inbound messages reaches it otherwise.
C34_BookingOnlyWhenComplete ==
    (last.op = "booking_cycle" /\ last.create_booking_state # None) =>
        LET s == last.create_booking_state IN
        /\ s.confirmed = "True"
        /\ s.service_selected
        /\ s.slot_selected
        /\ Truthy(s.customer)
        /\ DictGet(s.customer, "customer_uuid", "") # ""
        /\ s.vehicle # None
        /\ s.selected_service # None
        /\ s.appointment # None

C34_Witness ==
    /\ last.op = "booking_cycle"
    /\ last.create_booking_state # None
    /\ last.path[Len(last.path)] = "send_success"
    /\ last.create_booking_state.vehicle # None

----------------------------------------------------------------------------
(* Properties of AsyncHTTPClient._request, checked under SpecHttp *)

\* The attempts of the last call that met an HTTP error response.
ErrorResponses ==
    {i \in 1 .. last.attempts :
        last.outcomes[i].kind = "response" /\ last.outcomes[i].status_code >= 400}

\* C36: _request makes at most max_retries attempts per call; it
\* re-attempts only after a timeout or a network error, raising
\* TimeoutError or NetworkError once the attempts are exhausted, and an
\* HTTP error response (status >= 400) is raised to the caller by the
\* attempt that received it, never retried.
C36_RetriesOnlyTransportFailures ==
    last.op = "request" =>
        /\ last.attempts <= last.max_retries
        /\ \A i \in 1 .. last.attempts - 1 :
               last.outcomes[i].kind \in {"timeout", "network"}
        /\ (last.attempts = last.max_retries
             /\ last.outcomes[last.attempts].kind = "timeout")
               => last.raised = "TimeoutError"
        /\ (last.attempts = last.max_retries
             /\ last.outcomes[last.attempts].kind = "network")
               => last.raised = "NetworkError"
        /\ \A i \in ErrorResponses :
               /\ i = last.attempts
               /\ last.raised = handle_error(last.outcomes[i].status_code)

C36_Witness ==
    /\ last.op = "request"
    /\ last.max_retries = DefaultMaxRetries
    /\ last.attempts = 2
    /\ last.outcomes[1].kind = "timeout"
    /\ last.outcomes[2].kind = "response"
    /\ last.outcomes[2].status_code = 503
    /\ last.raised = "ServerError"

\* The nodes of the graph and, for a node, the nodes its edges lead to
\* under any routing outcome.
GraphNodes == DOMAIN conditional_edges \cup DOMAIN plain_edges

successors(node) ==
    IF node \in DOMAIN conditional_edges
    THEN {conditional_edges[node][outcome] : outcome \in DOMAIN conditional_edges[node]}
    ELSE {plain_edges[node]} \ {"END"}

RECURSIVE reached_within(_, _)
reached_within(nodes, steps) ==
    IF steps = 0 THEN nodes
    ELSE reached_within(nodes \cup UNION {successors(node) : node \in nodes}, steps - 1)

nodes_after(node) == reached_within(successors(node), Cardinality(GraphNodes))

\* C37: every processing cycle of the existing-user booking graph
\* terminates: no node can be reached again from itself under any state and
\* any router outcome, every edge leads to a node of the graph or to the
\* end of the cycle, and no node is executed twice in one cycle.
C37_CyclesTerminate ==
    /\ \A node \in GraphNodes :
           /\ successors(node) \subseteq GraphNodes
           /\ node \notin nodes_after(node)
    /\ last.op = "booking_cycle" =>
           /\ last.path[1] = "entry_router"
           /\ Len(last.path) <= Cardinality(GraphNodes)
           /\ \A i, j \in 1 .. Len(last.path) :
                  last.path[i] = last.path[j] => i = j

C37_Witness ==
    /\ last.op = "booking_cycle"
    /\ Len(last.path) >= 7
    /\ last.path[Len(last.path)] = "send_catalog"

\* The node that presents a choice and the resume decision that leads to
\* the node extracting the answer to it.
matching_decision ==
    [send_vehicle_options |-> "awaiting_vehicle",
     send_catalog |-> "awaiting_service",
     send_slots |-> "awaiting_slot",
     send_confirmation |-> "awaiting_confirmation"]

\* C38: whenever a cycle ends right after presenting a choice
\* (send_vehicle_options, send_catalog, send_slots, send_confirmation),
\* check_resume_point routes the next inbound message to the matching
\* extraction node, in every reachable state, also after an earlier booking
\* of the conversation was completed or cancelled.
C38_ResumesAtMatchingExtraction ==
    (last.op = "booking_cycle"
     /\ last.path[Len(last.path)] \in DOMAIN matching_decision) =>
        \A user_message \in BookingMessages :
            check_resume_point([state EXCEPT !.user_message = user_message])
                = matching_decision[last.path[Len(last.path)]]

\* C39: check_vehicle_selected returns 'frappe_error' only when the vehicle
\* fetch of the current cycle reported a Frappe error: after a fetch that
\* completed without error, or after extract_vehicle_selection_node ran, an
\* error recorded in an earlier cycle does not change the route.
C39_ErrorRouteOnlyForCurrentFetch ==
    last.op = "booking_cycle" =>
        /\ (\E i \in 1 .. Len(last.path) : last.path[i] = "send_frappe_error")
               => last.fetch_error
        /\ last.unmapped = "frappe_error" => last.fetch_error

----------------------------------------------------------------------------
(* Properties of the extracted name, checked under Spec *)

====
